---- MODULE Spec2Model ----
(***************************************************************************)
(* Model of the stateful engines of Project Argus:                         *)
(*   - TrustScoreManager  (src/src/scoring/trust_score.py)                 *)
(*   - PacketCapture / NetworkFlow (src/src/capture/packet_capture.py)     *)
(*   - IPTablesManager  (src/src/ips/firewall.py)                          *)
(*   - the flow thread and stop of ProjectArgus  (src/main.py)             *)
(*                                                                         *)
(* Numbers.  Python floats are modelled exactly where the code's           *)
(* arithmetic is exact on the inputs used, and as fixed point otherwise:   *)
(* a score is an integer number of 1/Scale points (100.0 is Full), the     *)
(* composite trust_score is a rational [num, den] because the normalised   *)
(* weights are fractions of the weight total.  An anomaly score and the    *)
(* decay rate are integers of hundredths (0.4 is 40, 0.95 is 95).          *)
(***************************************************************************)
EXTENDS Integers, Sequences, FiniteSets, TLC

(***************************************************************************)
(* Bounds of the model                                                     *)
(***************************************************************************)
MaxOps == 3

(***************************************************************************)
(* Input sets                                                              *)
(***************************************************************************)
DeviceIPs == {"d1", "d2"}
\* anomaly_score values in hundredths: -0.1, 0.4, 1.0
AnomalyScores == {-10, 40, 100}
\* vulnerable_ports arguments: none, two ports, six ports
PortLists == {<< >>, <<21, 23>>, <<21, 23, 25, 110, 139, 445>>}
\* hours_elapsed arguments of apply_score_decay
HoursElapsed == {1, 2}
\* constructor arguments (behavioral, vulnerability, reputation) in tenths
WeightChoices == {<<5, 3, 2>>, <<1, 1, 1>>}
\* constructor argument decay_rate in hundredths
DecayRates == {95, 50}

Scale == 100
Full == 100 * Scale

VARIABLES
    \* TrustScoreManager
    behavioral_weight, vulnerability_weight, reputation_weight, decay_rate,
    devices,
    \* history: number of completed calls, and the last completed call
    nops, last_call,
    \* the value returned by the last call when it was a query
    result,
    \* TrustScoreManager called from several threads: DeviceScore objects
    \* (mem), the dict self.devices as its entries in insertion order
    \* (ddict), and per thread its position, current call, local values,
    \* completed calls and whether a call raised
    mem, ddict, tpc, tcall, tloc, tdone, traised,
    \* PacketCapture: fields, the clock time.time() reads, and per thread
    \* its position and local values
    flows, completed_flows, running, lock, clock, fpc, floc,
    \* history: clock advances made, records created, per record the source
    \* of the packet that created it and the number and bytes of the packets
    \* given to its update (all, and those from that source), and the
    \* records returned by get_completed_flows(clear=True)
    nticks, nflows, hist, delivered,
    \* _get_flow_key on its own: the arguments and the two keys computed
    kin, kout,
    \* TrustScoreManager.__init__ on its own: the arguments, and whether the
    \* constructor has returned an instance ("yes"), raised, or not run ("no")
    args, built,
    \* IPTablesManager: fields, and the clock time.time() reads
    enabled, blocked_ips, quarantined_ips, quarantine_times, fw_time,
    \* history: the addresses blocked with permanent=True and not unblocked
    \* or flushed since, and the number of completed calls
    permanent, nfw,
    \* ProjectArgus.running
    argus_running

trustVars == <<behavioral_weight, vulnerability_weight, reputation_weight,
               decay_rate, devices, nops, last_call, result>>

threadVars == <<mem, ddict, tpc, tcall, tloc, tdone, traised>>

flowVars == <<flows, completed_flows, running, lock, clock, fpc, floc,
              nticks, nflows, hist, delivered>>

keyVars == <<kin, kout>>

configVars == <<args, built>>

firewallVars == <<enabled, blocked_ips, quarantined_ips, quarantine_times, fw_time,
                  permanent, nfw>>

argusVars == <<argus_running>>

vars == <<trustVars, threadVars, flowVars, keyVars, configVars, firewallVars, argusVars>>

(***************************************************************************)
(* Arithmetic helpers                                                      *)
(***************************************************************************)
Min(a, b) == IF a < b THEN a ELSE b

Max(a, b) == IF a > b THEN a ELSE b

RECURSIVE Pow(_, _)
Pow(x, n) == IF n = 0 THEN 1 ELSE x * Pow(x, n - 1)

\* equality of two rationals [num, den] with positive denominators
RatEq(x, y) == x.num * y.den = y.num * x.den

\* x < y for rationals with positive denominators
RatLess(x, y) == x.num * y.den < y.num * x.den

\* a whole number of score points as a rational
RatOf(n) == [num |-> n, den |-> 1]

(***************************************************************************)
(* DeviceScore and TrustScoreManager                                       *)
(***************************************************************************)
\* dataclass DeviceScore with its defaults (last_updated is not modelled:
\* nothing reads it but to_dict)
DeviceScore ==
    [trust_score |-> RatOf(Full),
     behavioral_score |-> Full,
     vulnerability_score |-> Full,
     reputation_score |-> Full,
     anomaly_count |-> 0,
     vulnerable_ports |-> << >>,
     is_whitelisted |-> FALSE,
     is_blacklisted |-> FALSE]

\* the weighted sum of the three components with the normalised weights,
\* which share the denominator behavioral_weight.den
WeightedSum(b, v, r) ==
    [num |-> behavioral_weight.num * b + vulnerability_weight.num * v
             + reputation_weight.num * r,
     den |-> behavioral_weight.den]

\* _update_overall_score applied to one record
update_overall_score(d) ==
    [d EXCEPT !.trust_score =
        WeightedSum(d.behavioral_score, d.vulnerability_score, d.reputation_score)]

\* get_or_create_device: the device map after the call
get_or_create_device(devs, ip) ==
    IF ip \notin DOMAIN devs
    THEN [i \in DOMAIN devs \cup {ip} |-> IF i = ip THEN DeviceScore ELSE devs[i]]
    ELSE devs

\* the penalty without its cap of 50 points
ScorePenaltyUncapped(a) == a * Scale

\* score_penalty = min(anomaly_score * 100, 50), in score units
ScorePenalty(a) == Min(a * Scale, 50 * Scale)

update_behavioral_score(devs, ip, a) ==
    LET ds == get_or_create_device(devs, ip)
        d0 == ds[ip]
        d1 == [d0 EXCEPT !.behavioral_score = Max(0, d0.behavioral_score - ScorePenalty(a)),
                         !.anomaly_count = d0.anomaly_count + 1]
    IN  [ds EXCEPT ![ip] = update_overall_score(d1)]

\* max(20, 100 - min(len(ports) * 15, 80)), in score units
VulnerabilityScore(ports) ==
    Max(20 * Scale, Full - Min(Len(ports) * 15 * Scale, 80 * Scale))

\* update_vulnerability_score that takes the penalty off the earlier score
update_vulnerability_score_accumulates(devs, ip, ports) ==
    LET ds == get_or_create_device(devs, ip)
        d1 == [ds[ip] EXCEPT !.vulnerable_ports = ports,
                             !.vulnerability_score =
                                 Max(20 * Scale,
                                     @ - Min(Len(ports) * 15 * Scale, 80 * Scale))]
    IN  [ds EXCEPT ![ip] = update_overall_score(d1)]

update_vulnerability_score(devs, ip, ports) ==
    LET ds == get_or_create_device(devs, ip)
        d1 == [ds[ip] EXCEPT !.vulnerable_ports = ports,
                             !.vulnerability_score = VulnerabilityScore(ports)]
    IN  [ds EXCEPT ![ip] = update_overall_score(d1)]

\* the reputation component after one reputation signal
ReputationAfter(r, is_malicious) ==
    IF is_malicious THEN Max(0, r - 50 * Scale) ELSE Min(Full, r + 5 * Scale)

update_reputation_score(devs, ip, is_malicious) ==
    LET ds == get_or_create_device(devs, ip)
        d1 == [ds[ip] EXCEPT !.reputation_score =
                                ReputationAfter(ds[ip].reputation_score, is_malicious)]
    IN  [ds EXCEPT ![ip] = update_overall_score(d1)]

\* decay_factor = decay_rate ** hours_elapsed, as a fraction
DecayFactor(h) == [num |-> Pow(decay_rate, h), den |-> Pow(100, h)]

\* one component after recovery: unchanged at or above 100, else
\* min(100, c + (100 - c) * (1 - decay_factor)), rounded down to 1/Scale
Recover(c, h) ==
    IF c < Full
    THEN LET f == DecayFactor(h)
             recovery == ((Full - c) * (f.den - f.num)) \div f.den
         IN  Min(Full, c + recovery)
    ELSE c

\* DecayDevice without the closing _update_overall_score
DecayDeviceNoRecompute(d, h) ==
    [d EXCEPT !.behavioral_score = Recover(d.behavioral_score, h),
              !.reputation_score = Recover(d.reputation_score, h)]

\* DecayDevice that lets vulnerability_score recover as well
DecayDeviceAllComponents(d, h) ==
    update_overall_score(
        [d EXCEPT !.behavioral_score = Recover(d.behavioral_score, h),
                  !.vulnerability_score = Recover(d.vulnerability_score, h),
                  !.reputation_score = Recover(d.reputation_score, h)])

\* the body of the loop of apply_score_decay for one record
DecayDevice(d, h) ==
    update_overall_score(
        [d EXCEPT !.behavioral_score = Recover(d.behavioral_score, h),
                  !.reputation_score = Recover(d.reputation_score, h)])

apply_score_decay(devs, h) ==
    [i \in DOMAIN devs |-> DecayDevice(devs[i], h)]

\* whitelist_device without the assignment is_blacklisted = False
whitelist_device_keeps_blacklist(devs, ip) ==
    LET ds == get_or_create_device(devs, ip)
        d1 == [ds[ip] EXCEPT !.is_whitelisted = TRUE,
                             !.behavioral_score = Full,
                             !.vulnerability_score = Full,
                             !.reputation_score = Full]
    IN  [ds EXCEPT ![ip] = update_overall_score(d1)]

whitelist_device(devs, ip) ==
    LET ds == get_or_create_device(devs, ip)
        d1 == [ds[ip] EXCEPT !.is_whitelisted = TRUE,
                             !.is_blacklisted = FALSE,
                             !.behavioral_score = Full,
                             !.vulnerability_score = Full,
                             !.reputation_score = Full]
    IN  [ds EXCEPT ![ip] = update_overall_score(d1)]

\* blacklist_device without the assignment reputation_score = 0.0
blacklist_device_keeps_reputation(devs, ip) ==
    LET ds == get_or_create_device(devs, ip)
        d1 == [ds[ip] EXCEPT !.is_blacklisted = TRUE,
                             !.is_whitelisted = FALSE,
                             !.behavioral_score = 0,
                             !.vulnerability_score = 0]
    IN  [ds EXCEPT ![ip] = update_overall_score(d1)]

\* blacklist_device that also resets anomaly_count
blacklist_device_resets_count(devs, ip) ==
    LET ds == get_or_create_device(devs, ip)
        d1 == [ds[ip] EXCEPT !.is_blacklisted = TRUE,
                             !.is_whitelisted = FALSE,
                             !.behavioral_score = 0,
                             !.vulnerability_score = 0,
                             !.reputation_score = 0,
                             !.anomaly_count = 0]
    IN  [ds EXCEPT ![ip] = update_overall_score(d1)]

blacklist_device(devs, ip) ==
    LET ds == get_or_create_device(devs, ip)
        d1 == [ds[ip] EXCEPT !.is_blacklisted = TRUE,
                             !.is_whitelisted = FALSE,
                             !.behavioral_score = 0,
                             !.vulnerability_score = 0,
                             !.reputation_score = 0]
    IN  [ds EXCEPT ![ip] = update_overall_score(d1)]

\* get_device_score: self.devices.get(device_ip)
get_device_score(devs, ip) == IF ip \in DOMAIN devs THEN devs[ip] ELSE "None"

\* get_all_devices: the records of the map, here by their address
get_all_devices(devs) == [ip \in DOMAIN devs |-> devs[ip]]

\* get_low_trust_devices with <= in place of <
get_low_trust_devices_inclusive(devs, threshold) ==
    LET low == {ip \in DOMAIN devs :
                    /\ ~RatLess(RatOf(threshold), devs[ip].trust_score)
                    /\ ~devs[ip].is_whitelisted}
    IN  [ip \in low |-> devs[ip]]

\* get_low_trust_devices: the records with trust_score < threshold and not
\* is_whitelisted, here by their address
get_low_trust_devices(devs, threshold) ==
    LET low == {ip \in DOMAIN devs :
                    /\ RatLess(devs[ip].trust_score, RatOf(threshold))
                    /\ ~devs[ip].is_whitelisted}
    IN  [ip \in low |-> devs[ip]]

\* TrustScoreManager.to_dict: per address a dict of the record's fields
scores_to_dict(devs) ==
    [ip \in DOMAIN devs |->
        [trust_score |-> devs[ip].trust_score,
         behavioral_score |-> devs[ip].behavioral_score,
         vulnerability_score |-> devs[ip].vulnerability_score,
         reputation_score |-> devs[ip].reputation_score,
         anomaly_count |-> devs[ip].anomaly_count,
         vulnerable_ports |-> devs[ip].vulnerable_ports,
         is_whitelisted |-> devs[ip].is_whitelisted,
         is_blacklisted |-> devs[ip].is_blacklisted]]

NoCall == [op |-> "none", ip |-> "none", arg |-> 0]

\* no query has returned
NoResult == "none"

(***************************************************************************)
(* TrustScoreManager: construction and the operations as atomic actions    *)
(***************************************************************************)
\* __init__: the weights are divided by their total
TrustInit ==
    /\ \E w \in WeightChoices :
         LET total == w[1] + w[2] + w[3] IN
         /\ behavioral_weight = [num |-> w[1], den |-> total]
         /\ vulnerability_weight = [num |-> w[2], den |-> total]
         /\ reputation_weight = [num |-> w[3], den |-> total]
    /\ decay_rate \in DecayRates
    /\ devices = << >>
    /\ nops = 0
    /\ last_call = NoCall
    /\ result = NoResult

\* one completed call: op and its arguments are recorded in last_call
Step(op, ip, arg, newDevices) ==
    /\ nops < MaxOps
    /\ nops' = nops + 1
    /\ last_call' = [op |-> op, ip |-> ip, arg |-> arg]
    /\ devices' = newDevices
    /\ result' = NoResult
    /\ UNCHANGED <<behavioral_weight, vulnerability_weight, reputation_weight, decay_rate>>
    /\ UNCHANGED <<threadVars, flowVars, keyVars, configVars, firewallVars, argusVars>>

GetOrCreateDevice == \E ip \in DeviceIPs : Step("get_or_create_device", ip, 0, get_or_create_device(devices, ip))

UpdateBehavioralScore ==
    \E ip \in DeviceIPs, a \in AnomalyScores : 
        Step("update_behavioral_score", ip, a, update_behavioral_score(devices, ip, a))

UpdateVulnerabilityScore ==
    \E ip \in DeviceIPs, ports \in PortLists : 
        Step("update_vulnerability_score", ip, ports, update_vulnerability_score(devices, ip, ports))

UpdateReputationScore ==
    \E ip \in DeviceIPs, m \in BOOLEAN : 
        Step("update_reputation_score", ip, m, update_reputation_score(devices, ip, m))

ApplyScoreDecay == \E h \in HoursElapsed : Step("apply_score_decay", "all", h, apply_score_decay(devices, h))

WhitelistDevice == \E ip \in DeviceIPs : Step("whitelist_device", ip, 0, whitelist_device(devices, ip))

BlacklistDevice == \E ip \in DeviceIPs : Step("blacklist_device", ip, 0, blacklist_device(devices, ip))

TrustNext ==
    \/ GetOrCreateDevice
    \/ UpdateBehavioralScore
    \/ UpdateVulnerabilityScore
    \/ UpdateReputationScore
    \/ ApplyScoreDecay
    \/ WhitelistDevice
    \/ BlacklistDevice

\* thresholds given to get_low_trust_devices, in 1/Scale points (50.0 is the
\* default)
Thresholds == {50 * Scale, Full}

\* a query that looks its address up with get_or_create_device
QueryThroughGetOrCreate(op, ip, arg, res) ==
    /\ nops < MaxOps
    /\ nops' = nops + 1
    /\ last_call' = [op |-> op, ip |-> ip, arg |-> arg]
    /\ result' = res
    /\ devices' = IF ip \in DeviceIPs THEN get_or_create_device(devices, ip) ELSE devices
    /\ UNCHANGED <<behavioral_weight, vulnerability_weight, reputation_weight, decay_rate>>
    /\ UNCHANGED <<threadVars, flowVars, keyVars, configVars, firewallVars, argusVars>>

\* one completed query: it assigns nothing and its value is returned
Query(op, ip, arg, res) ==
    /\ nops < MaxOps
    /\ nops' = nops + 1
    /\ last_call' = [op |-> op, ip |-> ip, arg |-> arg]
    /\ result' = res
    /\ UNCHANGED <<behavioral_weight, vulnerability_weight, reputation_weight, decay_rate,
                   devices>>
    /\ UNCHANGED <<threadVars, flowVars, keyVars, configVars, firewallVars, argusVars>>

GetDeviceScore == \E ip \in DeviceIPs : Query("get_device_score", ip, 0, get_device_score(devices, ip))

GetAllDevices == Query("get_all_devices", "all", 0, get_all_devices(devices))

GetLowTrustDevices ==
    \E th \in Thresholds :
        Query("get_low_trust_devices", "all", th, get_low_trust_devices(devices, th))

ToDict == Query("to_dict", "all", 0, scores_to_dict(devices))

QueryNext ==
    \/ GetDeviceScore
    \/ GetAllDevices
    \/ GetLowTrustDevices
    \/ ToDict

(***************************************************************************)
(* TrustScoreManager called from several threads.  The class takes no      *)
(* lock (ProjectArgus calls it from the flow, scan and decay threads and   *)
(* the API from its own), so a thread switch can fall between any two      *)
(* attribute reads or writes.  One step below is one read or one write of  *)
(* a shared attribute together with the local computation around it.       *)
(* In this specification `devices` is the device map before the threads    *)
(* start.                                                                  *)
(***************************************************************************)
Threads == {"t1", "t2"}

CallsPerThread == 1

MkCall(op, ip, a, ports, m, h) ==
    [op |-> op, ip |-> ip, a |-> a, ports |-> ports, m |-> m, h |-> h]

\* the calls a thread may make
ThreadCalls ==
    {MkCall("update_behavioral_score", ip, 40, << >>, FALSE, 0) : ip \in DeviceIPs}
    \cup {MkCall("update_vulnerability_score", "d1", 0, <<21, 23>>, FALSE, 0),
          MkCall("update_reputation_score", "d1", 0, << >>, TRUE, 0),
          MkCall("whitelist_device", "d1", 0, << >>, FALSE, 0),
          MkCall("blacklist_device", "d1", 0, << >>, FALSE, 0),
          MkCall("apply_score_decay", "all", 0, << >>, FALSE, 1)}

NoLocals == [dev |-> 0, tmp |-> 0, rec |-> 0, b |-> 0, v |-> 0, r |-> 0, pos |-> 0, size |-> 0]

\* device maps the threads can find when they start
StartDevices ==
    {<< >>,
     get_or_create_device(<< >>, "d1"),
     update_reputation_score(update_behavioral_score(<< >>, "d1", 40), "d1", TRUE)}

\* the keys of self.devices and the lookup self.devices[ip]
DictKeys == {ddict[i].ip : i \in 1..Len(ddict)}

DictGet(ip) == (CHOOSE i \in 1..Len(ddict) : ddict[i].ip = ip)

\* the device map the dict and the objects stand for
Snapshot == [ip \in DictKeys |-> mem[ddict[DictGet(ip)].obj]]

\* the call one thread makes, run on its own
Apply(devs, c) ==
    CASE c.op = "update_behavioral_score" -> update_behavioral_score(devs, c.ip, c.a)
      [] c.op = "update_vulnerability_score" -> update_vulnerability_score(devs, c.ip, c.ports)
      [] c.op = "update_reputation_score" -> update_reputation_score(devs, c.ip, c.m)
      [] c.op = "whitelist_device" -> whitelist_device(devs, c.ip)
      [] c.op = "blacklist_device" -> blacklist_device(devs, c.ip)
      [] c.op = "apply_score_decay" -> apply_score_decay(devs, c.h)

RECURSIVE Run(_, _)
Run(devs, calls) ==
    IF calls = << >> THEN devs ELSE Run(Apply(devs, Head(calls)), Tail(calls))

\* the interleavings of two call sequences
RECURSIVE Merges(_, _)
Merges(s1, s2) ==
    IF s1 = << >> THEN {s2}
    ELSE IF s2 = << >> THEN {s1}
    ELSE {<<Head(s1)>> \o m : m \in Merges(Tail(s1), s2)}
         \cup {<<Head(s2)>> \o m : m \in Merges(s1, Tail(s2))}

ThreadInit ==
    /\ devices \in StartDevices
    /\ \E order \in [1..Cardinality(DOMAIN devices) -> DOMAIN devices] :
         /\ \A i, j \in DOMAIN order : i # j => order[i] # order[j]
         /\ ddict = [i \in DOMAIN order |-> [ip |-> order[i], obj |-> i]]
         /\ mem = [i \in DOMAIN order |-> devices[order[i]]]
    /\ tpc = [t \in Threads |-> "idle"]
    /\ tcall = [t \in Threads |-> MkCall("none", "none", 0, << >>, FALSE, 0)]
    /\ tloc = [t \in Threads |-> NoLocals]
    /\ tdone = [t \in Threads |-> << >>]
    /\ traised = [t \in Threads |-> FALSE]

\* a thread goes to pc, changing nothing shared
Goto(t, pc) ==
    /\ tpc' = [tpc EXCEPT ![t] = pc]
    /\ UNCHANGED <<trustVars, flowVars, keyVars, configVars, firewallVars, argusVars>>

Dev(t) == mem[tloc[t].dev]

\* the call returns (or raises) and is recorded as made
Return(t) ==
    /\ tpc' = [tpc EXCEPT ![t] = "idle"]
    /\ tdone' = [tdone EXCEPT ![t] = Append(@, tcall[t])]
    /\ UNCHANGED <<trustVars, flowVars, keyVars, configVars, firewallVars, argusVars>>

\* a thread enters one of the mutating methods
TCall(t) ==
    /\ tpc[t] = "idle"
    /\ Len(tdone[t]) < CallsPerThread
    /\ \E c \in ThreadCalls :
         /\ tcall' = [tcall EXCEPT ![t] = c]
         /\ Goto(t, IF c.op = "apply_score_decay" THEN "dc_iter" ELSE "goc_check")
    /\ tloc' = [tloc EXCEPT ![t] = NoLocals]
    /\ UNCHANGED <<mem, ddict, tdone, traised>>

\* get_or_create_device: if device_ip not in self.devices
GocCheck(t) ==
    /\ tpc[t] = "goc_check"
    /\ Goto(t, IF tcall[t].ip \notin DictKeys THEN "goc_new" ELSE "goc_ret")
    /\ UNCHANGED <<mem, ddict, tcall, tloc, tdone, traised>>

\* self.devices[device_ip] = DeviceScore(device_ip=device_ip)
GocNew(t) ==
    /\ tpc[t] = "goc_new"
    /\ mem' = Append(mem, DeviceScore)
    /\ ddict' = IF tcall[t].ip \in DictKeys
                THEN [ddict EXCEPT ![DictGet(tcall[t].ip)].obj = Len(mem) + 1]
                ELSE Append(ddict, [ip |-> tcall[t].ip, obj |-> Len(mem) + 1])
    /\ Goto(t, "goc_ret")
    /\ UNCHANGED <<tcall, tloc, tdone, traised>>

FirstPc(op) ==
    CASE op = "update_behavioral_score" -> "ub_read"
      [] op = "update_vulnerability_score" -> "uv_ports"
      [] op = "update_reputation_score" -> "ur_read"
      [] op = "whitelist_device" -> "flag_set"
      [] op = "blacklist_device" -> "flag_set"

\* return self.devices[device_ip]
GocRet(t) ==
    /\ tpc[t] = "goc_ret"
    /\ tloc' = [tloc EXCEPT ![t].dev = ddict[DictGet(tcall[t].ip)].obj]
    /\ Goto(t, FirstPc(tcall[t].op))
    /\ UNCHANGED <<mem, ddict, tcall, tdone, traised>>

\* update_behavioral_score: read device.behavioral_score
UbRead(t) ==
    /\ tpc[t] = "ub_read"
    /\ tloc' = [tloc EXCEPT ![t].tmp = Dev(t).behavioral_score]
    /\ Goto(t, "ub_write")
    /\ UNCHANGED <<mem, ddict, tcall, tdone, traised>>

\* device.behavioral_score = max(0, <value read> - score_penalty)
UbWrite(t) ==
    /\ tpc[t] = "ub_write"
    /\ mem' = [mem EXCEPT ![tloc[t].dev].behavioral_score =
                  Max(0, tloc[t].tmp - ScorePenalty(tcall[t].a))]
    /\ Goto(t, "ub_count_read")
    /\ UNCHANGED <<ddict, tcall, tloc, tdone, traised>>

\* device.anomaly_count += 1: the read
UbCountRead(t) ==
    /\ tpc[t] = "ub_count_read"
    /\ tloc' = [tloc EXCEPT ![t].tmp = Dev(t).anomaly_count]
    /\ Goto(t, "ub_count_write")
    /\ UNCHANGED <<mem, ddict, tcall, tdone, traised>>

\* device.anomaly_count += 1: the write
UbCountWrite(t) ==
    /\ tpc[t] = "ub_count_write"
    /\ mem' = [mem EXCEPT ![tloc[t].dev].anomaly_count = tloc[t].tmp + 1]
    /\ Goto(t, "ov_read_b")
    /\ UNCHANGED <<ddict, tcall, tloc, tdone, traised>>

\* update_vulnerability_score: device.vulnerable_ports = vulnerable_ports
UvPorts(t) ==
    /\ tpc[t] = "uv_ports"
    /\ mem' = [mem EXCEPT ![tloc[t].dev].vulnerable_ports = tcall[t].ports]
    /\ Goto(t, "uv_write")
    /\ UNCHANGED <<ddict, tcall, tloc, tdone, traised>>

\* device.vulnerability_score = max(20, 100 - total_penalty)
UvWrite(t) ==
    /\ tpc[t] = "uv_write"
    /\ mem' = [mem EXCEPT ![tloc[t].dev].vulnerability_score =
                  VulnerabilityScore(tcall[t].ports)]
    /\ Goto(t, "ov_read_b")
    /\ UNCHANGED <<ddict, tcall, tloc, tdone, traised>>

\* update_reputation_score: read device.reputation_score
UrRead(t) ==
    /\ tpc[t] = "ur_read"
    /\ tloc' = [tloc EXCEPT ![t].tmp = Dev(t).reputation_score]
    /\ Goto(t, "ur_write")
    /\ UNCHANGED <<mem, ddict, tcall, tdone, traised>>

\* device.reputation_score = max(0, <read> - 50) or min(100, <read> + 5)
UrWrite(t) ==
    /\ tpc[t] = "ur_write"
    /\ mem' = [mem EXCEPT ![tloc[t].dev].reputation_score =
                  ReputationAfter(tloc[t].tmp, tcall[t].m)]
    /\ Goto(t, "ov_read_b")
    /\ UNCHANGED <<ddict, tcall, tloc, tdone, traised>>

\* the value whitelist_device (100) or blacklist_device (0) forces
Forced(op) == IF op = "whitelist_device" THEN Full ELSE 0

\* whitelist_device: is_whitelisted = True; blacklist_device: is_blacklisted = True
FlagSet(t) ==
    /\ tpc[t] = "flag_set"
    /\ mem' = IF tcall[t].op = "whitelist_device"
              THEN [mem EXCEPT ![tloc[t].dev].is_whitelisted = TRUE]
              ELSE [mem EXCEPT ![tloc[t].dev].is_blacklisted = TRUE]
    /\ Goto(t, "flag_clear")
    /\ UNCHANGED <<ddict, tcall, tloc, tdone, traised>>

\* whitelist_device: is_blacklisted = False; blacklist_device: is_whitelisted = False
FlagClear(t) ==
    /\ tpc[t] = "flag_clear"
    /\ mem' = IF tcall[t].op = "whitelist_device"
              THEN [mem EXCEPT ![tloc[t].dev].is_blacklisted = FALSE]
              ELSE [mem EXCEPT ![tloc[t].dev].is_whitelisted = FALSE]
    /\ Goto(t, "force_b")
    /\ UNCHANGED <<ddict, tcall, tloc, tdone, traised>>

ForceB(t) ==
    /\ tpc[t] = "force_b"
    /\ mem' = [mem EXCEPT ![tloc[t].dev].behavioral_score = Forced(tcall[t].op)]
    /\ Goto(t, "force_v")
    /\ UNCHANGED <<ddict, tcall, tloc, tdone, traised>>

ForceV(t) ==
    /\ tpc[t] = "force_v"
    /\ mem' = [mem EXCEPT ![tloc[t].dev].vulnerability_score = Forced(tcall[t].op)]
    /\ Goto(t, "force_r")
    /\ UNCHANGED <<ddict, tcall, tloc, tdone, traised>>

ForceR(t) ==
    /\ tpc[t] = "force_r"
    /\ mem' = [mem EXCEPT ![tloc[t].dev].reputation_score = Forced(tcall[t].op)]
    /\ Goto(t, "ov_read_b")
    /\ UNCHANGED <<ddict, tcall, tloc, tdone, traised>>

\* _update_overall_score: the three reads of the weighted sum
OvReadB(t) ==
    /\ tpc[t] = "ov_read_b"
    /\ tloc' = [tloc EXCEPT ![t].b = Dev(t).behavioral_score]
    /\ Goto(t, "ov_read_v")
    /\ UNCHANGED <<mem, ddict, tcall, tdone, traised>>

OvReadV(t) ==
    /\ tpc[t] = "ov_read_v"
    /\ tloc' = [tloc EXCEPT ![t].v = Dev(t).vulnerability_score]
    /\ Goto(t, "ov_read_r")
    /\ UNCHANGED <<mem, ddict, tcall, tdone, traised>>

OvReadR(t) ==
    /\ tpc[t] = "ov_read_r"
    /\ tloc' = [tloc EXCEPT ![t].r = Dev(t).reputation_score]
    /\ Goto(t, "ov_write")
    /\ UNCHANGED <<mem, ddict, tcall, tdone, traised>>

\* device.trust_score = <the weighted sum>; then the caller returns, or
\* the loop of apply_score_decay goes on
OvWrite(t) ==
    /\ tpc[t] = "ov_write"
    /\ mem' = [mem EXCEPT ![tloc[t].dev].trust_score =
                  WeightedSum(tloc[t].b, tloc[t].v, tloc[t].r)]
    /\ IF tcall[t].op = "apply_score_decay"
       THEN Goto(t, "dc_next") /\ UNCHANGED tdone
       ELSE Return(t)
    /\ UNCHANGED <<ddict, tcall, tloc, traised>>

\* apply_score_decay: for device in self.devices.values(): the iterator
\* remembers the size of the dict
DcIter(t) ==
    /\ tpc[t] = "dc_iter"
    /\ tloc' = [tloc EXCEPT ![t].size = Len(ddict), ![t].pos = 1]
    /\ Goto(t, "dc_next")
    /\ UNCHANGED <<mem, ddict, tcall, tdone, traised>>

\* the iterator's next(): RuntimeError if the dict changed size, the end of
\* the loop after the last entry, else the value of the next entry
DcNext(t) ==
    /\ tpc[t] = "dc_next"
    /\ IF Len(ddict) # tloc[t].size
       THEN /\ traised' = [traised EXCEPT ![t] = TRUE]
            /\ Return(t)
            /\ UNCHANGED tloc
       ELSE IF tloc[t].pos > Len(ddict)
       THEN /\ Return(t)
            /\ UNCHANGED <<tloc, traised>>
       ELSE /\ tloc' = [tloc EXCEPT ![t].dev = ddict[tloc[t].pos].obj,
                                    ![t].pos = tloc[t].pos + 1]
            /\ Goto(t, "dc_check_b")
            /\ UNCHANGED <<tdone, traised>>
    /\ UNCHANGED <<mem, ddict, tcall>>

\* if device.behavioral_score < 100
DcCheckB(t) ==
    /\ tpc[t] = "dc_check_b"
    /\ Goto(t, IF Dev(t).behavioral_score < Full THEN "dc_rec_b" ELSE "dc_check_r")
    /\ UNCHANGED <<mem, ddict, tcall, tloc, tdone, traised>>

\* recovery = (100 - c) * (1 - decay_factor) for a component value c
Recovery(c, h) ==
    LET f == DecayFactor(h) IN ((Full - c) * (f.den - f.num)) \div f.den

\* recovery = (100 - device.behavioral_score) * (1 - decay_factor)
DcRecB(t) ==
    /\ tpc[t] = "dc_rec_b"
    /\ tloc' = [tloc EXCEPT ![t].rec = Recovery(Dev(t).behavioral_score, tcall[t].h)]
    /\ Goto(t, "dc_read_b")
    /\ UNCHANGED <<mem, ddict, tcall, tdone, traised>>

\* min(100, device.behavioral_score + recovery): the read
DcReadB(t) ==
    /\ tpc[t] = "dc_read_b"
    /\ tloc' = [tloc EXCEPT ![t].tmp = Dev(t).behavioral_score]
    /\ Goto(t, "dc_write_b")
    /\ UNCHANGED <<mem, ddict, tcall, tdone, traised>>

\* device.behavioral_score = min(100, <read> + recovery)
DcWriteB(t) ==
    /\ tpc[t] = "dc_write_b"
    /\ mem' = [mem EXCEPT ![tloc[t].dev].behavioral_score =
                  Min(Full, tloc[t].tmp + tloc[t].rec)]
    /\ Goto(t, "dc_check_r")
    /\ UNCHANGED <<ddict, tcall, tloc, tdone, traised>>

\* if device.reputation_score < 100
DcCheckR(t) ==
    /\ tpc[t] = "dc_check_r"
    /\ Goto(t, IF Dev(t).reputation_score < Full THEN "dc_rec_r" ELSE "ov_read_b")
    /\ UNCHANGED <<mem, ddict, tcall, tloc, tdone, traised>>

DcRecR(t) ==
    /\ tpc[t] = "dc_rec_r"
    /\ tloc' = [tloc EXCEPT ![t].rec = Recovery(Dev(t).reputation_score, tcall[t].h)]
    /\ Goto(t, "dc_read_r")
    /\ UNCHANGED <<mem, ddict, tcall, tdone, traised>>

DcReadR(t) ==
    /\ tpc[t] = "dc_read_r"
    /\ tloc' = [tloc EXCEPT ![t].tmp = Dev(t).reputation_score]
    /\ Goto(t, "dc_write_r")
    /\ UNCHANGED <<mem, ddict, tcall, tdone, traised>>

DcWriteR(t) ==
    /\ tpc[t] = "dc_write_r"
    /\ mem' = [mem EXCEPT ![tloc[t].dev].reputation_score =
                  Min(Full, tloc[t].tmp + tloc[t].rec)]
    /\ Goto(t, "ov_read_b")
    /\ UNCHANGED <<ddict, tcall, tloc, tdone, traised>>

ThreadsNext ==
    \/ \E t \in Threads : TCall(t)
    \/ \E t \in Threads : GocCheck(t)
    \/ \E t \in Threads : GocNew(t)
    \/ \E t \in Threads : GocRet(t)
    \/ \E t \in Threads : UbRead(t)
    \/ \E t \in Threads : UbWrite(t)
    \/ \E t \in Threads : UbCountRead(t)
    \/ \E t \in Threads : UbCountWrite(t)
    \/ \E t \in Threads : UvPorts(t)
    \/ \E t \in Threads : UvWrite(t)
    \/ \E t \in Threads : UrRead(t)
    \/ \E t \in Threads : UrWrite(t)
    \/ \E t \in Threads : FlagSet(t)
    \/ \E t \in Threads : FlagClear(t)
    \/ \E t \in Threads : ForceB(t)
    \/ \E t \in Threads : ForceV(t)
    \/ \E t \in Threads : ForceR(t)
    \/ \E t \in Threads : OvReadB(t)
    \/ \E t \in Threads : OvReadV(t)
    \/ \E t \in Threads : OvReadR(t)
    \/ \E t \in Threads : OvWrite(t)
    \/ \E t \in Threads : DcIter(t)
    \/ \E t \in Threads : DcNext(t)
    \/ \E t \in Threads : DcCheckB(t)
    \/ \E t \in Threads : DcRecB(t)
    \/ \E t \in Threads : DcReadB(t)
    \/ \E t \in Threads : DcWriteB(t)
    \/ \E t \in Threads : DcCheckR(t)
    \/ \E t \in Threads : DcRecR(t)
    \/ \E t \in Threads : DcReadR(t)
    \/ \E t \in Threads : DcWriteR(t)

\* the threaded manager before any thread runs: the records of `devices`
ThreadsAtRest ==
    /\ mem = << >>
    /\ ddict = << >>
    /\ tpc = [t \in Threads |-> "idle"]
    /\ tcall = [t \in Threads |-> MkCall("none", "none", 0, << >>, FALSE, 0)]
    /\ tloc = [t \in Threads |-> NoLocals]
    /\ tdone = [t \in Threads |-> << >>]
    /\ traised = [t \in Threads |-> FALSE]

\* a manager built with the default arguments
DefaultManager ==
    /\ behavioral_weight = [num |-> 5, den |-> 10]
    /\ vulnerability_weight = [num |-> 3, den |-> 10]
    /\ reputation_weight = [num |-> 2, den |-> 10]
    /\ decay_rate = 95
    /\ nops = 0
    /\ last_call = NoCall
    /\ result = NoResult

(***************************************************************************)
(* PacketCapture and NetworkFlow                                           *)
(*                                                                         *)
(* An address is a Python str, modelled as the sequence of its character   *)
(* codes, and src_ip < dst_ip is the lexicographic order of str.  The      *)
(* flow key is an f-string of five fields none of which contains the       *)
(* separators ':' and '-', so it is modelled as the tuple of the fields.   *)
(***************************************************************************)
MaxPackets == 2

MaxTicks == 1

\* PacketCapture.__init__: flow_timeout: int = 120
FlowTimeout == 120

\* the clock when the capture is constructed, and the advances of the clock
\* between two steps
ClockStart == 100

TickSteps == {50, 120, 121}

\* addresses "10", "9" (and "1" for the key derivation alone)
FlowIPs == {<<1, 0>>, <<9>>}

KeyIPs == FlowIPs \cup {<<1>>}

FlowPorts == {1, 2}

\* scapy packets.  ip: the packet has an IP layer; l4: the layer above it;
\* size: len(packet)
Pkt(ip, src, dst, l4, sport, dport, size) ==
    [ip |-> ip, src |-> src, dst |-> dst, l4 |-> l4, sport |-> sport,
     dport |-> dport, size |-> size]

\* an IP packet on which reading a field or len(packet) raises
Malformed == Pkt(TRUE, << >>, << >>, "MALFORMED", 0, 0, 0)

\* the statements of _process_packet before the lock raise on the packet
Raises(p) == p.l4 = "MALFORMED"

\* a TCP segment "10":1 -> "9":2 and its reply, a segment between the same
\* hosts on other ports, an ICMP echo, an ARP frame (no IP layer), and the
\* malformed packet
Packets ==
    {Pkt(TRUE, <<1, 0>>, <<9>>, "TCP", 1, 2, 60),
     Pkt(TRUE, <<9>>, <<1, 0>>, "TCP", 2, 1, 1500),
     Pkt(TRUE, <<9>>, <<1, 0>>, "TCP", 1, 2, 40),
     Pkt(TRUE, <<1, 0>>, <<9>>, "ICMP", 0, 0, 84),
     Pkt(FALSE, << >>, << >>, "ARP", 0, 0, 42),
     Malformed}

\* the packets of the threaded specification: a segment, its reply, the
\* ARP frame and the malformed packet
ThreadPackets ==
    {Pkt(TRUE, <<1, 0>>, <<9>>, "TCP", 1, 2, 60),
     Pkt(TRUE, <<9>>, <<1, 0>>, "TCP", 2, 1, 1500),
     Pkt(FALSE, << >>, << >>, "ARP", 0, 0, 42),
     Malformed}

ThreadTickSteps == {121}

\* str.__lt__: lexicographic comparison of two strings
RECURSIVE StrLess(_, _)
StrLess(a, b) ==
    IF b = << >> THEN FALSE
    ELSE IF a = << >> THEN TRUE
    ELSE IF Head(a) # Head(b) THEN Head(a) < Head(b)
    ELSE StrLess(Tail(a), Tail(b))

\* _get_flow_key
get_flow_key(src_ip, dst_ip, src_port, dst_port, protocol) ==
    IF StrLess(src_ip, dst_ip)
    THEN <<src_ip, src_port, dst_ip, dst_port, protocol>>
    ELSE <<dst_ip, dst_port, src_ip, src_port, protocol>>

\* NetworkFlow.__init__, with the value time.time() returns and the number
\* of records created before it (id, history only)
NetworkFlow(src_ip, dst_ip, src_port, dst_port, protocol, now, id) ==
    [src_ip |-> src_ip, dst_ip |-> dst_ip, src_port |-> src_port,
     dst_port |-> dst_port, protocol |-> protocol,
     start_time |-> now, last_packet_time |-> now,
     fwd_packets |-> 0, bwd_packets |-> 0, fwd_bytes |-> 0, bwd_bytes |-> 0,
     packet_times |-> << >>, id |-> id]

\* forward decided by the canonical key: the packet comes from the key's
\* first endpoint
is_forward_by_key(flow, src_ip, src_port) ==
    LET k == get_flow_key(flow.src_ip, flow.dst_ip, flow.src_port, flow.dst_port,
                          flow.protocol)
    IN  k[1] = src_ip /\ k[2] = src_port

\* _is_forward_direction
is_forward_direction(flow, src_ip, src_port) ==
    flow.src_ip = src_ip /\ flow.src_port = src_port

\* NetworkFlow.update
flow_update(flow, packet_size, is_forward, timestamp) ==
    LET f1 == IF is_forward
              THEN [flow EXCEPT !.fwd_packets = @ + 1, !.fwd_bytes = @ + packet_size]
              ELSE [flow EXCEPT !.bwd_packets = @ + 1, !.bwd_bytes = @ + packet_size]
    IN  [f1 EXCEPT !.packet_times = Append(@, timestamp),
                   !.last_packet_time = timestamp]

\* NetworkFlow.duration, total_packets, total_bytes
duration(flow) == flow.last_packet_time - flow.start_time

total_packets(flow) == flow.fwd_packets + flow.bwd_packets

\* total_bytes without the backward bytes
total_bytes_forward_only(flow) == flow.fwd_bytes

total_bytes(flow) == flow.fwd_bytes + flow.bwd_bytes

RECURSIVE SumSeq(_)
SumSeq(q) == IF q = << >> THEN 0 ELSE Head(q) + SumSeq(Tail(q))

\* NetworkFlow.avg_inter_arrival_time, as the fraction sum / len
avg_inter_arrival_time(flow) ==
    IF Len(flow.packet_times) < 2
    THEN [num |-> 0, den |-> 1]
    ELSE LET intervals == [i \in 1..(Len(flow.packet_times) - 1) |->
                              flow.packet_times[i + 1] - flow.packet_times[i]]
         IN  [num |-> SumSeq(intervals), den |-> Len(intervals)]

\* NetworkFlow.to_dict
to_dict(flow) ==
    [src_ip |-> flow.src_ip, dst_ip |-> flow.dst_ip,
     src_port |-> flow.src_port, dst_port |-> flow.dst_port,
     protocol |-> flow.protocol,
     flow_duration |-> duration(flow),
     total_fwd_packets |-> flow.fwd_packets,
     total_bwd_packets |-> flow.bwd_packets,
     total_fwd_bytes |-> flow.fwd_bytes,
     total_bwd_bytes |-> flow.bwd_bytes,
     total_packets |-> total_packets(flow),
     total_bytes |-> total_bytes(flow),
     packet_inter_arrival_time |-> avg_inter_arrival_time(flow),
     timestamp |-> [isoformat |-> flow.start_time],
     id |-> flow.id]

\* the values of a dict of flows in iteration order: records are inserted
\* in the order of their creation
RECURSIVE InOrder(_)
InOrder(fs) ==
    IF DOMAIN fs = {} THEN << >>
    ELSE LET k == CHOOSE k \in DOMAIN fs : \A j \in DOMAIN fs : fs[k].id <= fs[j].id
         IN  <<k>> \o InOrder([j \in DOMAIN fs \ {k} |-> fs[j]])

\* the test with >= in place of >
ExpiredAtTimeout(flow, current_time, timeout) ==
    current_time - flow.last_packet_time >= timeout

\* the test of _cleanup_expired_flows on one flow
Expired(flow, current_time, timeout) ==
    current_time - flow.last_packet_time > timeout

\* the keys of the flows that expire at current_time, in iteration order
ExpiredKeys(fs, current_time, timeout) ==
    SelectSeq(InOrder(fs), LAMBDA k : Expired(fs[k], current_time, timeout))

Sniffers == {"sniff"}

\* the threads from which _process_packet is called when two calls overlap
PacketThreads == Sniffers \cup {"sniff2"}

FlowThreads == PacketThreads \cup {"cleanup", "drain", "stop"}

NoFlowLocals ==
    [pkt |-> 0, key |-> 0, current_time |-> 0, expired_keys |-> << >>,
     clear |-> FALSE, flows |-> << >>]

\* PacketCapture.__init__, and start_capture has set self.running
FlowInit ==
    /\ flows = << >>
    /\ completed_flows = << >>
    /\ running = TRUE
    /\ lock = "free"
    /\ clock = ClockStart
    /\ fpc = [t \in FlowThreads |-> "idle"]
    /\ floc = [t \in FlowThreads |-> NoFlowLocals]
    /\ nticks = 0
    /\ nflows = 0
    /\ hist = << >>
    /\ delivered = << >>

\* the number of packets given to a record's update so far
RECURSIVE SumPackets(_)
SumPackets(q) == IF q = << >> THEN 0 ELSE Head(q).packets + SumPackets(Tail(q))

Accepted == SumPackets(hist)

FGoto(t, pc) ==
    /\ fpc' = [fpc EXCEPT ![t] = pc]
    /\ UNCHANGED <<trustVars, threadVars, keyVars, configVars, firewallVars, argusVars>>

\* a call may begin: always when calls overlap, and only when no other call
\* is under way when calls are made one after another (serial)
MayBegin(t, serial) ==
    /\ fpc[t] = "idle"
    /\ serial => \A u \in FlowThreads : fpc[u] = "idle"

\* entry without waiting for the lock to be free
AcquireWithoutWaiting(t) == lock' = t

\* with self.lock: entry
Acquire(t) ==
    /\ lock = "free"
    /\ lock' = t

\* time passes
Tick(Steps) ==
    /\ nticks < MaxTicks
    /\ \E d \in Steps : clock' = clock + d
    /\ nticks' = nticks + 1
    /\ UNCHANGED <<flows, completed_flows, running, lock, fpc, floc, nflows, hist,
                   delivered>>
    /\ UNCHANGED <<trustVars, threadVars, keyVars, configVars, firewallVars, argusVars>>

\* the protocol and ports _process_packet extracts
PacketProtocol(p) == IF p.l4 \in {"TCP", "UDP", "ICMP"} THEN p.l4 ELSE "OTHER"

PacketSport(p) == IF p.l4 \in {"TCP", "UDP"} THEN p.sport ELSE 0

PacketDport(p) == IF p.l4 \in {"TCP", "UDP"} THEN p.dport ELSE 0

\* _process_packet up to the lock: a packet without IP layer is on its way
\* to the return, a packet on which these statements raise is on its way
\* to the except clause, else the key is derived and current_time read
ProcessPacket(t, Pkts, serial) ==
    /\ MayBegin(t, serial)
    /\ Accepted + Cardinality({u \in PacketThreads : fpc[u] # "idle"}) < MaxPackets
    /\ \E p \in Pkts :
         IF ~p.ip \/ Raises(p)
         THEN /\ FGoto(t, "pp_skip")
              /\ UNCHANGED floc
         ELSE /\ floc' = [floc EXCEPT ![t].pkt = p,
                              ![t].key = get_flow_key(p.src, p.dst, PacketSport(p),
                                                      PacketDport(p), PacketProtocol(p)),
                              ![t].current_time = clock]
              /\ FGoto(t, "pp_lock")
    /\ UNCHANGED <<flows, completed_flows, running, lock, clock, nticks, nflows, hist,
                   delivered>>

\* PpSkip entering the lock and leaving it held
PpSkipLeavesLockHeld(t) ==
    /\ fpc[t] = "pp_skip"
    /\ lock = "free"
    /\ lock' = t
    /\ FGoto(t, "idle")
    /\ UNCHANGED <<flows, completed_flows, running, clock, floc, nticks, nflows,
                   hist, delivered>>

\* the return of line 129, or the except clause: the error is logged and
\* _process_packet returns
PpSkip(t) ==
    /\ fpc[t] = "pp_skip"
    /\ FGoto(t, "idle")
    /\ UNCHANGED <<flows, completed_flows, running, lock, clock, floc, nticks, nflows,
                   hist, delivered>>

PpLock(t) ==
    /\ fpc[t] = "pp_lock"
    /\ Acquire(t)
    /\ FGoto(t, "pp_create")
    /\ UNCHANGED <<flows, completed_flows, running, clock, floc, nticks, nflows, hist,
                   delivered>>

\* if flow_key not in self.flows: self.flows[flow_key] = NetworkFlow(...)
PpCreate(t) ==
    /\ fpc[t] = "pp_create"
    /\ LET p == floc[t].pkt
           k == floc[t].key
       IN  IF k \notin DOMAIN flows
           THEN /\ flows' = [j \in DOMAIN flows \cup {k} |->
                               IF j = k
                               THEN NetworkFlow(p.src, p.dst, PacketSport(p), PacketDport(p),
                                                PacketProtocol(p), clock, nflows + 1)
                               ELSE flows[j]]
                /\ nflows' = nflows + 1
                /\ hist' = Append(hist, [src_ip |-> p.src, src_port |-> PacketSport(p),
                                          packets |-> 0, bytes |-> 0,
                                          same_src_packets |-> 0, same_src_bytes |-> 0])
           ELSE UNCHANGED <<flows, nflows, hist>>
    /\ FGoto(t, "pp_update")
    /\ UNCHANGED <<completed_flows, running, lock, clock, floc, nticks, delivered>>

\* flow.update(packet_size, is_forward, current_time), and the lock is left
PpUpdate(t) ==
    /\ fpc[t] = "pp_update"
    /\ LET p == floc[t].pkt
           k == floc[t].key
           flow == flows[k]
           is_forward == is_forward_direction(flow, p.src, PacketSport(p))
       IN  /\ flows' = [flows EXCEPT ![k] =
                           flow_update(flow, p.size, is_forward, floc[t].current_time)]
           /\ hist' = LET same == (p.src = hist[flow.id].src_ip
                                    /\ PacketSport(p) = hist[flow.id].src_port)
                       IN  [hist EXCEPT ![flow.id].packets = @ + 1,
                                        ![flow.id].bytes = @ + p.size,
                                        ![flow.id].same_src_packets =
                                            IF same THEN @ + 1 ELSE @,
                                        ![flow.id].same_src_bytes =
                                            IF same THEN @ + p.size ELSE @]
    /\ lock' = "free"
    /\ floc' = [floc EXCEPT ![t] = NoFlowLocals]
    /\ FGoto(t, "idle")
    /\ UNCHANGED <<completed_flows, running, clock, nticks, nflows, delivered>>

\* _cleanup_expired_flows up to the lock: current_time = time.time()
Cleanup(serial) ==
    /\ MayBegin("cleanup", serial)
    /\ floc' = [floc EXCEPT !["cleanup"].current_time = clock,
                            !["cleanup"].expired_keys = << >>]
    /\ FGoto("cleanup", "sw_lock")
    /\ UNCHANGED <<flows, completed_flows, running, lock, clock, nticks, nflows, hist,
                   delivered>>

SwLock ==
    /\ fpc["cleanup"] = "sw_lock"
    /\ Acquire("cleanup")
    /\ FGoto("cleanup", "sw_scan")
    /\ UNCHANGED <<flows, completed_flows, running, clock, floc, nticks, nflows, hist,
                   delivered>>

\* the loop over self.flows.items(): the expired flows are appended to
\* completed_flows and their keys to expired_keys
SwScan ==
    /\ fpc["cleanup"] = "sw_scan"
    /\ LET ks == ExpiredKeys(flows, floc["cleanup"].current_time, FlowTimeout)
       IN  /\ completed_flows' = completed_flows \o [i \in 1..Len(ks) |-> to_dict(flows[ks[i]])]
           /\ floc' = [floc EXCEPT !["cleanup"].expired_keys = ks]
    /\ FGoto("cleanup", "sw_delete")
    /\ UNCHANGED <<flows, running, lock, clock, nticks, nflows, hist, delivered>>

\* SwDelete without the deletions
SwDeleteKeepsFlows ==
    /\ fpc["cleanup"] = "sw_delete"
    /\ lock' = "free"
    /\ floc' = [floc EXCEPT !["cleanup"] = NoFlowLocals]
    /\ FGoto("cleanup", "idle")
    /\ UNCHANGED <<flows, completed_flows, running, clock, nticks, nflows, hist, delivered>>

\* for key in expired_keys: del self.flows[key], and the lock is left
SwDelete ==
    /\ fpc["cleanup"] = "sw_delete"
    /\ LET gone == {floc["cleanup"].expired_keys[i] :
                       i \in 1..Len(floc["cleanup"].expired_keys)}
       IN  flows' = [k \in DOMAIN flows \ gone |-> flows[k]]
    /\ lock' = "free"
    /\ floc' = [floc EXCEPT !["cleanup"] = NoFlowLocals]
    /\ FGoto("cleanup", "idle")
    /\ UNCHANGED <<completed_flows, running, clock, nticks, nflows, hist, delivered>>

\* get_completed_flows(clear): entry of the lock
GetCompletedFlows(serial) ==
    /\ MayBegin("drain", serial)
    /\ Acquire("drain")
    /\ \E clear \in BOOLEAN : floc' = [floc EXCEPT !["drain"].clear = clear]
    /\ FGoto("drain", "gc_copy")
    /\ UNCHANGED <<flows, completed_flows, running, clock, nticks, nflows, hist,
                   delivered>>

\* flows = self.completed_flows.copy()
GcCopy ==
    /\ fpc["drain"] = "gc_copy"
    /\ floc' = [floc EXCEPT !["drain"].flows = completed_flows]
    /\ FGoto("drain", "gc_clear")
    /\ UNCHANGED <<flows, completed_flows, running, lock, clock, nticks, nflows, hist,
                   delivered>>

\* GcClear without self.completed_flows.clear()
GcClearKeepsBuffer ==
    /\ fpc["drain"] = "gc_clear"
    /\ delivered' = IF floc["drain"].clear THEN delivered \o floc["drain"].flows
                    ELSE delivered
    /\ lock' = "free"
    /\ floc' = [floc EXCEPT !["drain"] = NoFlowLocals]
    /\ FGoto("drain", "idle")
    /\ UNCHANGED <<flows, completed_flows, running, clock, nticks, nflows, hist>>

\* if clear: self.completed_flows.clear(); the lock is left and the copy
\* returned
GcClear ==
    /\ fpc["drain"] = "gc_clear"
    /\ IF floc["drain"].clear
       THEN /\ completed_flows' = << >>
            /\ delivered' = delivered \o floc["drain"].flows
       ELSE UNCHANGED <<completed_flows, delivered>>
    /\ lock' = "free"
    /\ floc' = [floc EXCEPT !["drain"] = NoFlowLocals]
    /\ FGoto("drain", "idle")
    /\ UNCHANGED <<flows, running, clock, nticks, nflows, hist>>

\* stop: self.running = False
Stop(serial) ==
    /\ MayBegin("stop", serial)
    /\ running' = FALSE
    /\ FGoto("stop", "st_lock")
    /\ UNCHANGED <<flows, completed_flows, lock, clock, floc, nticks, nflows, hist,
                   delivered>>

StLock ==
    /\ fpc["stop"] = "st_lock"
    /\ Acquire("stop")
    /\ FGoto("stop", "st_move")
    /\ UNCHANGED <<flows, completed_flows, running, clock, floc, nticks, nflows, hist,
                   delivered>>

\* StMove with the timeout test of the sweep
StMoveExpiredOnly ==
    /\ fpc["stop"] = "st_move"
    /\ LET ks == ExpiredKeys(flows, clock, FlowTimeout)
       IN  completed_flows' = completed_flows \o [i \in 1..Len(ks) |-> to_dict(flows[ks[i]])]
    /\ FGoto("stop", "st_clear")
    /\ UNCHANGED <<flows, running, lock, clock, floc, nticks, nflows, hist,
                   delivered>>

\* for flow in self.flows.values(): self.completed_flows.append(flow.to_dict())
StMove ==
    /\ fpc["stop"] = "st_move"
    /\ LET ks == InOrder(flows)
       IN  completed_flows' = completed_flows \o [i \in 1..Len(ks) |-> to_dict(flows[ks[i]])]
    /\ FGoto("stop", "st_clear")
    /\ UNCHANGED <<flows, running, lock, clock, floc, nticks, nflows, hist,
                   delivered>>

\* StClear without self.flows.clear()
StClearKeepsFlows ==
    /\ fpc["stop"] = "st_clear"
    /\ lock' = "free"
    /\ FGoto("stop", "idle")
    /\ UNCHANGED <<flows, completed_flows, running, clock, floc, nticks, nflows, hist,
                   delivered>>

\* self.flows.clear(), and the lock is left
StClear ==
    /\ fpc["stop"] = "st_clear"
    /\ flows' = << >>
    /\ lock' = "free"
    /\ FGoto("stop", "idle")
    /\ UNCHANGED <<completed_flows, running, clock, floc, nticks, nflows, hist,
                   delivered>>

FlowNextOf(Pkts, Steps, serial) ==
    \/ Tick(Steps)
    \/ \E t \in Sniffers : ProcessPacket(t, Pkts, serial)
    \/ \E t \in Sniffers : PpSkip(t)
    \/ \E t \in Sniffers : PpLock(t)
    \/ \E t \in Sniffers : PpCreate(t)
    \/ \E t \in Sniffers : PpUpdate(t)
    \/ Cleanup(serial)
    \/ SwLock
    \/ SwScan
    \/ SwDelete
    \/ GetCompletedFlows(serial)
    \/ GcCopy
    \/ GcClear
    \/ Stop(serial)
    \/ StLock
    \/ StMove
    \/ StClear

\* the calls made one after another
FlowNext == FlowNextOf(Packets, TickSteps, TRUE)

\* the calls made from threads that overlap
FlowThreadsNext == FlowNextOf(ThreadPackets, ThreadTickSteps, FALSE)

(***************************************************************************)
(* The capture as ProjectArgus runs it: start_capture has set running and  *)
(* started _cleanup_thread, sniff delivers packets to _process_packet      *)
(* (it is given no stop condition, so it goes on after stop), the flow     *)
(* thread drains, and ProjectArgus.stop calls stop once.                   *)
(***************************************************************************)
\* _cleanup_thread: while self.running
CtCheck ==
    /\ fpc["cleanup"] = "idle"
    /\ FGoto("cleanup", IF running THEN "ct_sleep" ELSE "ct_done")
    /\ UNCHANGED <<flows, completed_flows, running, lock, clock, floc, nticks, nflows,
                   hist, delivered>>

\* time.sleep(10) is over: self._cleanup_expired_flows() up to its lock
CtWake ==
    /\ fpc["cleanup"] = "ct_sleep"
    /\ floc' = [floc EXCEPT !["cleanup"].current_time = clock,
                            !["cleanup"].expired_keys = << >>]
    /\ FGoto("cleanup", "sw_lock")
    /\ UNCHANGED <<flows, completed_flows, running, lock, clock, nticks, nflows, hist,
                   delivered>>

\* ProjectArgus.stop: self.packet_capture.stop(), once
StopOnce == running /\ Stop(FALSE)

SniffSteps(t) == PpSkip(t) \/ PpLock(t) \/ PpCreate(t) \/ PpUpdate(t)

CleanupThreadSteps == CtCheck \/ CtWake \/ SwLock \/ SwScan \/ SwDelete

DrainSteps == GetCompletedFlows(FALSE) \/ GcCopy \/ GcClear

StopSteps == StopOnce \/ StLock \/ StMove \/ StClear

FlowRunNext ==
    \/ Tick(ThreadTickSteps)
    \/ \E t \in Sniffers : ProcessPacket(t, ThreadPackets, FALSE)
    \/ \E t \in Sniffers : SniffSteps(t)
    \/ CleanupThreadSteps
    \/ DrainSteps
    \/ StopSteps

\* every thread that can take a step again and again takes one, the clock
\* advances, and stop is called; packets need not arrive
FlowRunFairness ==
    /\ WF_vars(Tick(ThreadTickSteps))
    /\ \A t \in Sniffers : SF_vars(SniffSteps(t))
    /\ SF_vars(CleanupThreadSteps)
    /\ SF_vars(DrainSteps)
    /\ SF_vars(StopSteps)

(***************************************************************************)
(* _process_packet called from two threads, each call reading its          *)
(* timestamp before it waits for the lock                                  *)
(***************************************************************************)
FlowCallersNext ==
    \/ Tick(ThreadTickSteps)
    \/ \E t \in PacketThreads : ProcessPacket(t, ThreadPackets, FALSE)
    \/ \E t \in PacketThreads : SniffSteps(t)

(***************************************************************************)
(* ProjectArgus: start_capture has set self.running and started the flow   *)
(* thread (_process_flows) and the capture; stop sets self.running to      *)
(* False and then calls packet_capture.stop().  The threads are daemon     *)
(* threads, nothing joins them.                                            *)
(***************************************************************************)
ArgusInit == argus_running = TRUE

\* _process_flows: while self.running (and time.sleep(5) is over)
PfCheck ==
    /\ fpc["drain"] = "idle"
    /\ FGoto("drain", IF argus_running THEN "pf_call" ELSE "pf_done")
    /\ UNCHANGED <<flows, completed_flows, running, lock, clock, floc, nticks, nflows,
                   hist, delivered>>

\* self.packet_capture.get_completed_flows(clear=True) up to its lock; the
\* records it returns go to influxdb.write_flows and _analyze_flows
PfCall ==
    /\ fpc["drain"] = "pf_call"
    /\ Acquire("drain")
    /\ floc' = [floc EXCEPT !["drain"].clear = TRUE]
    /\ FGoto("drain", "gc_copy")
    /\ UNCHANGED <<flows, completed_flows, running, clock, nticks, nflows, hist,
                   delivered>>

\* ProjectArgus.stop: self.running = False
ArgusStop ==
    /\ fpc["stop"] = "idle"
    /\ argus_running
    /\ argus_running' = FALSE
    /\ fpc' = [fpc EXCEPT !["stop"] = "as_capture"]
    /\ UNCHANGED <<flows, completed_flows, running, lock, clock, floc, nticks, nflows,
                   hist, delivered>>
    /\ UNCHANGED <<trustVars, threadVars, keyVars, configVars, firewallVars>>

\* ProjectArgus.stop: self.packet_capture.stop(), its first statement
ArgusCaptureStop ==
    /\ fpc["stop"] = "as_capture"
    /\ running' = FALSE
    /\ FGoto("stop", "st_lock")
    /\ UNCHANGED <<flows, completed_flows, lock, clock, floc, nticks, nflows, hist,
                   delivered>>

ProcessFlowsSteps == PfCheck \/ PfCall \/ GcCopy \/ GcClear

ArgusStopSteps == ArgusStop \/ ArgusCaptureStop \/ StLock \/ StMove \/ StClear

ArgusNext ==
    \/ Tick(ThreadTickSteps)
    \/ \E t \in Sniffers : ProcessPacket(t, ThreadPackets, FALSE)
    \/ \E t \in Sniffers : SniffSteps(t)
    \/ CleanupThreadSteps
    \/ ProcessFlowsSteps
    \/ ArgusStopSteps

\* every thread that can take a step again and again takes one, the clock
\* advances, and stop is called; packets need not arrive
ArgusFairness ==
    /\ WF_vars(Tick(ThreadTickSteps))
    /\ \A t \in Sniffers : SF_vars(SniffSteps(t))
    /\ SF_vars(CleanupThreadSteps)
    /\ SF_vars(ProcessFlowsSteps)
    /\ SF_vars(ArgusStopSteps)

(***************************************************************************)
(* _get_flow_key applied to a packet's fields and to its reply's           *)
(***************************************************************************)
KeyInputs ==
    [src_ip : KeyIPs, dst_ip : KeyIPs, src_port : FlowPorts, dst_port : FlowPorts,
     protocol : {"TCP", "UDP"}]

NoKeys == [computed |-> FALSE, packet |-> << >>, reply |-> << >>]

KeyInit ==
    /\ kin \in KeyInputs
    /\ kout = NoKeys

DeriveKeys ==
    /\ ~kout.computed
    /\ kout' = [computed |-> TRUE,
                packet |-> get_flow_key(kin.src_ip, kin.dst_ip, kin.src_port,
                                        kin.dst_port, kin.protocol),
                reply |-> get_flow_key(kin.dst_ip, kin.src_ip, kin.dst_port,
                                       kin.src_port, kin.protocol)]
    /\ UNCHANGED kin
    /\ UNCHANGED <<trustVars, threadVars, flowVars, configVars, firewallVars, argusVars>>

NextPacket ==
    /\ kout.computed
    /\ kin' \in KeyInputs
    /\ kout' = NoKeys
    /\ UNCHANGED <<trustVars, threadVars, flowVars, configVars, firewallVars, argusVars>>

KeyNext == DeriveKeys \/ NextPacket

\* the key derivation before any packet is looked at
KeysAtRest ==
    /\ kin = [src_ip |-> <<1>>, dst_ip |-> <<1>>, src_port |-> 1, dst_port |-> 1,
              protocol |-> "TCP"]
    /\ kout = NoKeys

(***************************************************************************)
(* TrustScoreManager.__init__ applied to any arguments.  Weights are in    *)
(* tenths and decay_rate in hundredths, as in WeightChoices and            *)
(* DecayRates; the values below include negative and zero ones.            *)
(***************************************************************************)
WeightArgs == {-5, 0, 2, 3, 5}

DecayArgs == {-50, 0, 95}

ConfigInputs ==
    [behavioral_weight : WeightArgs, vulnerability_weight : WeightArgs,
     reputation_weight : WeightArgs, decay_rate : DecayArgs]

\* the default arguments 0.5, 0.3, 0.2, 0.95
DefaultArgs ==
    [behavioral_weight |-> 5, vulnerability_weight |-> 3, reputation_weight |-> 2,
     decay_rate |-> 95]

\* w / total as a fraction with a positive denominator
Normalised(w, total) ==
    IF total > 0 THEN [num |-> w, den |-> total] ELSE [num |-> -w, den |-> -total]

\* no instance yet
ConfigInit ==
    /\ args \in ConfigInputs
    /\ built = "no"
    /\ behavioral_weight = RatOf(0)
    /\ vulnerability_weight = RatOf(0)
    /\ reputation_weight = RatOf(0)
    /\ decay_rate = 0
    /\ devices = << >>
    /\ nops = 0
    /\ last_call = NoCall
    /\ result = NoResult

\* __init__: the fields are assigned, then the weights divided by their
\* total; the division raises ZeroDivisionError when the total is 0 and no
\* instance is returned
Construct ==
    /\ built = "no"
    /\ LET total == args.behavioral_weight + args.vulnerability_weight
                    + args.reputation_weight
       IN  IF total = 0
           THEN /\ built' = "raised"
                /\ UNCHANGED <<behavioral_weight, vulnerability_weight,
                               reputation_weight, decay_rate>>
           ELSE /\ built' = "yes"
                /\ behavioral_weight' = Normalised(args.behavioral_weight, total)
                /\ vulnerability_weight' = Normalised(args.vulnerability_weight, total)
                /\ reputation_weight' = Normalised(args.reputation_weight, total)
                /\ decay_rate' = args.decay_rate
    /\ UNCHANGED <<args, devices, nops, last_call, result>>
    /\ UNCHANGED <<threadVars, flowVars, keyVars, firewallVars, argusVars>>

ConfigNext == Construct

(***************************************************************************)
(* IPTablesManager.  A call is one step; _run_iptables_command returns     *)
(* False when the manager is not enabled and else what iptables made of    *)
(* the command, which the model leaves open.                               *)
(***************************************************************************)
MaxFwOps == 4

FwIPs == {"d1", "d2"}

\* quarantine durations and the seconds that pass between two calls
Durations == {60, 3600}

FwTickSteps == {60, 3600}

\* what a pair of _run_iptables_command calls may return (success_in and
\* success_out)
CommandsSucceed == IF enabled THEN BOOLEAN ELSE {FALSE}

\* block_ip: its return value and blocked_ips after it, ok being
\* success_in and success_out
block_ip(blocked, ip, ok) ==
    IF ip \in blocked THEN [success |-> TRUE, blocked |-> blocked]
    ELSE IF ok THEN [success |-> TRUE, blocked |-> blocked \cup {ip}]
    ELSE [success |-> FALSE, blocked |-> blocked]

\* unblock_ip: blocked_ips after it
unblock_ip(blocked, ip, ok) ==
    IF ip \notin blocked THEN blocked
    ELSE IF ok THEN blocked \ {ip}
    ELSE blocked

\* the addresses whose quarantine has run out at current_time
ExpiredIps(times, current_time) == {ip \in DOMAIN times : current_time >= times[ip]}

FirewallInit ==
    /\ enabled \in BOOLEAN
    /\ blocked_ips = {}
    /\ quarantined_ips = {}
    /\ quarantine_times = << >>
    /\ fw_time = 0
    /\ permanent = {}
    /\ nfw = 0

\* no IPTablesManager call is looked at
FirewallAtRest ==
    /\ enabled = FALSE
    /\ blocked_ips = {}
    /\ quarantined_ips = {}
    /\ quarantine_times = << >>
    /\ fw_time = 0
    /\ permanent = {}
    /\ nfw = 0

\* one completed call
FwStep ==
    /\ nfw < MaxFwOps
    /\ nfw' = nfw + 1
    /\ UNCHANGED enabled
    /\ UNCHANGED <<trustVars, threadVars, flowVars, keyVars, configVars, argusVars>>

BlockIp ==
    \E ip \in FwIPs, perm \in BOOLEAN, ok \in CommandsSucceed :
        LET r == block_ip(blocked_ips, ip, ok) IN
        /\ FwStep
        /\ blocked_ips' = r.blocked
        /\ permanent' = IF perm /\ r.success THEN permanent \cup {ip} ELSE permanent
        /\ UNCHANGED <<quarantined_ips, quarantine_times, fw_time>>

UnblockIp ==
    \E ip \in FwIPs, ok \in CommandsSucceed :
        /\ FwStep
        /\ blocked_ips' = unblock_ip(blocked_ips, ip, ok)
        /\ permanent' = permanent \ {ip}
        /\ UNCHANGED <<quarantined_ips, quarantine_times, fw_time>>

\* quarantine_ip: block_ip(ip, permanent=False), and on success the address
\* is quarantined until time.time() + duration
QuarantineIp ==
    \E ip \in FwIPs, dur \in Durations, ok \in CommandsSucceed :
        LET r == block_ip(blocked_ips, ip, ok) IN
        /\ FwStep
        /\ blocked_ips' = r.blocked
        /\ IF r.success
           THEN /\ quarantined_ips' = quarantined_ips \cup {ip}
                /\ quarantine_times' =
                       [a \in DOMAIN quarantine_times \cup {ip} |->
                           IF a = ip THEN fw_time + dur ELSE quarantine_times[a]]
           ELSE UNCHANGED <<quarantined_ips, quarantine_times>>
        /\ UNCHANGED <<fw_time, permanent>>

\* check_quarantine_expiry: every expired address is given to unblock_ip,
\* then taken out of quarantined_ips and quarantine_times
CheckQuarantineExpiry ==
    LET expired == ExpiredIps(quarantine_times, fw_time) IN
    \E ok \in [expired -> CommandsSucceed] :
        /\ FwStep
        /\ blocked_ips' = {ip \in blocked_ips :
                              ip \in expired => ip \in unblock_ip(blocked_ips, ip, ok[ip])}
        /\ quarantined_ips' = quarantined_ips \ expired
        /\ quarantine_times' = [a \in DOMAIN quarantine_times \ expired |-> quarantine_times[a]]
        /\ UNCHANGED <<fw_time, permanent>>

\* flush_rules: iptables -F, and on success the three collections are
\* cleared
FlushRules ==
    \E ok \in CommandsSucceed :
        /\ FwStep
        /\ IF ok
           THEN /\ blocked_ips' = {}
                /\ quarantined_ips' = {}
                /\ quarantine_times' = << >>
           ELSE UNCHANGED <<blocked_ips, quarantined_ips, quarantine_times>>
        /\ permanent' = {}
        /\ UNCHANGED fw_time

\* time passes between two calls
FwTick ==
    /\ FwStep
    /\ \E d \in FwTickSteps : fw_time' = fw_time + d
    /\ UNCHANGED <<blocked_ips, quarantined_ips, quarantine_times, permanent>>

FirewallNext ==
    \/ BlockIp
    \/ UnblockIp
    \/ QuarantineIp
    \/ CheckQuarantineExpiry
    \/ FlushRules
    \/ FwTick

\* the construction on its own is not looked at: a manager exists
ConfigAtRest ==
    /\ args = DefaultArgs
    /\ built = "yes"

Init == TrustInit /\ ThreadsAtRest /\ FlowInit /\ KeysAtRest /\ ConfigAtRest
    /\ FirewallAtRest /\ ArgusInit

Next == TrustNext

Spec == Init /\ [][Next]_vars

InitThreads == DefaultManager /\ ThreadInit /\ FlowInit /\ KeysAtRest /\ ConfigAtRest
    /\ FirewallAtRest /\ ArgusInit

SpecThreads == InitThreads /\ [][ThreadsNext]_vars

InitFlow ==
    /\ DefaultManager /\ devices = << >> /\ ThreadsAtRest /\ FlowInit /\ KeysAtRest
    /\ ConfigAtRest /\ FirewallAtRest /\ ArgusInit

SpecFlow == InitFlow /\ [][FlowNext]_vars

SpecFlowThreads == InitFlow /\ [][FlowThreadsNext]_vars

SpecFlowRun == InitFlow /\ [][FlowRunNext]_vars /\ FlowRunFairness

InitKey ==
    /\ DefaultManager /\ devices = << >> /\ ThreadsAtRest /\ FlowInit /\ KeyInit
    /\ ConfigAtRest /\ FirewallAtRest /\ ArgusInit

SpecKey == InitKey /\ [][KeyNext]_vars

InitConfig == ConfigInit /\ ThreadsAtRest /\ FlowInit /\ KeysAtRest
    /\ FirewallAtRest /\ ArgusInit

SpecConfig == InitConfig /\ [][ConfigNext]_vars

\* TrustScoreManager with its queries
SpecQuery == Init /\ [][TrustNext \/ QueryNext]_vars

SpecFlowCallers == InitFlow /\ [][FlowCallersNext]_vars

SpecArgus == InitFlow /\ [][ArgusNext]_vars /\ ArgusFairness

InitFirewall ==
    /\ DefaultManager /\ devices = << >> /\ ThreadsAtRest /\ FlowInit /\ KeysAtRest
    /\ ConfigAtRest /\ FirewallInit /\ ArgusInit

SpecFirewall == InitFirewall /\ [][FirewallNext]_vars

(***************************************************************************)
(* Claims about the TrustScoreManager operations run one after another     *)
(***************************************************************************)

\* C1: after any finite sequence of completed TrustScoreManager operations
\* every device record satisfies trust_score = w_b*behavioral_score +
\* w_v*vulnerability_score + w_r*reputation_score, with the weights as
\* normalised at construction.
CompositeFormula ==
    \A ip \in DOMAIN devices :
        RatEq(devices[ip].trust_score,
              WeightedSum(devices[ip].behavioral_score,
                          devices[ip].vulnerability_score,
                          devices[ip].reputation_score))

\* a device whose components differ from each other and from the default
\* after a decay, next to a second device
CompositeFormulaWitness ==
    /\ last_call.op = "apply_score_decay"
    /\ DOMAIN devices = DeviceIPs
    /\ \E ip \in DOMAIN devices :
         /\ devices[ip].behavioral_score > 0
         /\ devices[ip].behavioral_score < Full
         /\ ~RatEq(devices[ip].trust_score, RatOf(Full))

\* C3: overrides persist: while a device is whitelisted (after
\* whitelist_device and before a later blacklist_device) its three
\* components and its trust_score are all 100, and while it is blacklisted
\* they are all 0, whatever update or decay calls happen in between.
OverridesPersist ==
    \A ip \in DOMAIN devices :
        /\ devices[ip].is_whitelisted =>
             /\ devices[ip].behavioral_score = Full
             /\ devices[ip].vulnerability_score = Full
             /\ devices[ip].reputation_score = Full
             /\ RatEq(devices[ip].trust_score, RatOf(Full))
        /\ devices[ip].is_blacklisted =>
             /\ devices[ip].behavioral_score = 0
             /\ devices[ip].vulnerability_score = 0
             /\ devices[ip].reputation_score = 0
             /\ RatEq(devices[ip].trust_score, RatOf(0))

\* C4: is_whitelisted and is_blacklisted are mutually exclusive: after
\* whitelist_device the device is whitelisted and not blacklisted, after
\* blacklist_device it is blacklisted and not whitelisted, and no device
\* has both flags true.
FlagsExclusive ==
    /\ \A ip \in DOMAIN devices :
         ~(devices[ip].is_whitelisted /\ devices[ip].is_blacklisted)
    /\ last_call.op = "whitelist_device" =>
         devices[last_call.ip].is_whitelisted /\ ~devices[last_call.ip].is_blacklisted
    /\ last_call.op = "blacklist_device" =>
         devices[last_call.ip].is_blacklisted /\ ~devices[last_call.ip].is_whitelisted

\* a device that was blacklisted and later whitelisted (its anomaly-free
\* record is whitelisted while the other device is still blacklisted)
FlagsExclusiveWitness ==
    /\ last_call.op = "whitelist_device"
    /\ nops >= 3
    /\ devices[last_call.ip].is_whitelisted
    /\ \E ip \in DOMAIN devices : devices[ip].is_blacklisted

(***************************************************************************)
(* Claims about TrustScoreManager calls made from several threads           *)
(***************************************************************************)
AllReturned ==
    \A t \in Threads : tpc[t] = "idle" /\ Len(tdone[t]) = CallsPerThread

\* C2: calls on the same device serialize: when the concurrent calls of
\* two threads have all returned (without raising), the device records
\* equal the result of running those calls one after another in some
\* order, so no component update or anomaly_count increment is lost and
\* the composite is computed from one snapshot of the three components.
CallsSerialize ==
    (AllReturned /\ \A t \in Threads : ~traised[t]) =>
        \E m \in Merges(tdone["t1"], tdone["t2"]) : Snapshot = Run(devices, m)

(***************************************************************************)
(* Claims about the values the TrustScoreManager operations compute         *)
(***************************************************************************)
\* a score component within [0, 100]
InRange(c) == 0 <= c /\ c <= Full

\* C17: in every reachable state, for every device, behavioral_score,
\* vulnerability_score, reputation_score and trust_score lie in [0, 100],
\* whatever the anomaly scores (negative ones too), port lists,
\* is_malicious values and hours_elapsed given to the operations.
ScoresInRange ==
    \A ip \in DOMAIN devices :
        /\ InRange(devices[ip].behavioral_score)
        /\ InRange(devices[ip].vulnerability_score)
        /\ InRange(devices[ip].reputation_score)
        /\ ~RatLess(devices[ip].trust_score, RatOf(0))
        /\ ~RatLess(RatOf(Full), devices[ip].trust_score)

\* a call of op has completed in this step
CallStep(op) == nops' = nops + 1 /\ last_call'.op = op

\* the record of a device before a call: its record, or the defaults with
\* which the call creates it
Before(ip) == IF ip \in DOMAIN devices THEN devices[ip] ELSE DeviceScore

\* C18: update_behavioral_score(ip, s) sets behavioral_score to
\* max(0, behavioral_score - min(100*s, 50)): one call lowers it by at most
\* 50, so a device at 100 is not at 0 after one call.  From a device created
\* by the first call, calls with s = 0.4 take behavioral_score to 60, then
\* to 20, then to 0, and with the weights (0.5, 0.3, 0.2) and the other
\* components at 100 the trust_score is then 50.
BehavioralPenalty ==
    [][CallStep("update_behavioral_score") =>
        LET ip == last_call'.ip
            s == last_call'.arg
            old == Before(ip).behavioral_score
            new == devices'[ip].behavioral_score
        IN  /\ new = Max(0, old - Min(s * Scale, 50 * Scale))
            /\ new >= old - 50 * Scale
            /\ old = 100 * Scale => new > 0
            /\ (s = 40 /\ ip \notin DOMAIN devices) => new = 60 * Scale
            /\ (s = 40 /\ old = 60 * Scale) => new = 20 * Scale
            /\ (s = 40 /\ old = 20 * Scale) =>
                /\ new = 0
                /\ (/\ behavioral_weight = [num |-> 5, den |-> 10]
                    /\ vulnerability_weight = [num |-> 3, den |-> 10]
                    /\ reputation_weight = [num |-> 2, den |-> 10]
                    /\ devices'[ip].vulnerability_score = 100 * Scale
                    /\ devices'[ip].reputation_score = 100 * Scale)
                   => RatEq(devices'[ip].trust_score, RatOf(50 * Scale))]_vars

\* three calls for d1, the last with s = 0.4, have created it and taken
\* its behavioral_score to 0 and its trust_score to 50
BehavioralPenaltyWitness ==
    /\ nops = 3
    /\ last_call.op = "update_behavioral_score" /\ last_call.arg = 40
    /\ behavioral_weight = [num |-> 5, den |-> 10]
    /\ DOMAIN devices = {"d1"}
    /\ devices["d1"].anomaly_count = 3
    /\ devices["d1"].behavioral_score = 0
    /\ devices["d1"].vulnerability_score = Full
    /\ RatEq(devices["d1"].trust_score, RatOf(50 * Scale))

\* C19: anomaly_count of a device is the number of update_behavioral_score
\* calls made for it since its creation: a record is created with 0, every
\* update_behavioral_score call for the device adds exactly 1, and no other
\* call changes it, so it never decreases.
AnomalyCountCounts ==
    [][nops' = nops + 1 =>
        \A ip \in DOMAIN devices' :
            devices'[ip].anomaly_count =
                Before(ip).anomaly_count
                + (IF last_call'.op = "update_behavioral_score" /\ last_call'.ip = ip
                   THEN 1 ELSE 0)]_vars

\* after two update_behavioral_score calls for d1, a blacklist_device call
\* for d1 has left its anomaly_count at 2
AnomalyCountCountsWitness ==
    /\ nops = 3
    /\ last_call.op = "blacklist_device" /\ last_call.ip = "d1"
    /\ devices["d1"].anomaly_count = 2

\* C20: update_vulnerability_score replaces and does not accumulate: after
\* update_vulnerability_score(ip, ports), vulnerable_ports = ports and
\* vulnerability_score = max(20, 100 - min(15*len(ports), 80)), whatever
\* the earlier ports and score; so a call with [] on a device whose last
\* scan found six ports (score 20) gives 100, and no call gives less than
\* 20.
VulnerabilityReplaced ==
    [][CallStep("update_vulnerability_score") =>
        LET ip == last_call'.ip
            ports == last_call'.arg
            new == devices'[ip].vulnerability_score
        IN  /\ devices'[ip].vulnerable_ports = ports
            /\ new = Max(20, 100 - Min(15 * Len(ports), 80)) * Scale
            /\ new >= 20 * Scale
            /\ (/\ ports = << >>
                /\ Len(Before(ip).vulnerable_ports) >= 6
                /\ Before(ip).vulnerability_score = 20 * Scale)
               => new = 100 * Scale]_vars

\* three scans: the last, of d1, found no port and its vulnerability_score
\* is 100; the scan of d2 found six ports and its score is at the floor 20
VulnerabilityReplacedWitness ==
    /\ nops = 3
    /\ last_call.op = "update_vulnerability_score" /\ last_call.ip = "d1"
    /\ devices["d1"].vulnerable_ports = << >>
    /\ devices["d1"].vulnerability_score = Full
    /\ "d2" \in DOMAIN devices
    /\ Len(devices["d2"].vulnerable_ports) = 6
    /\ devices["d2"].vulnerability_score = 20 * Scale

(***************************************************************************)
(* Claims about the flow key and the flow tracker                          *)
(***************************************************************************)

\* C5: flow key derivation is commutative: for every src_ip and dst_ip
\* (equal or different) and all ports and protocols, the key of a packet
\* equals the key of its reply (source and destination swapped).
KeyCommutative == kout.computed => kout.packet = kout.reply

\* all completed records: those still buffered and those already returned
AllCompleted == completed_flows \o delivered

Range(q) == {q[i] : i \in 1..Len(q)}

\* C6: direction is relative to the first packet, not to the canonical
\* key: the packets of a record that have the (src_ip, src_port) of the
\* packet that created it are counted in fwd_packets/fwd_bytes and all its
\* other packets in bwd_packets/bwd_bytes; the creating packet is always
\* counted forward.
DirectionByFirstPacket ==
    /\ \A k \in DOMAIN flows :
         LET f == flows[k]
             h == hist[f.id]
         IN  /\ f.src_ip = h.src_ip /\ f.src_port = h.src_port
             /\ f.fwd_packets = h.same_src_packets
             /\ f.fwd_bytes = h.same_src_bytes
             /\ f.bwd_packets = h.packets - h.same_src_packets
             /\ f.bwd_bytes = h.bytes - h.same_src_bytes
             /\ h.packets >= 1 => f.fwd_packets >= 1
    /\ \A c \in Range(AllCompleted) :
         LET h == hist[c.id]
         IN  /\ c.total_fwd_packets = h.same_src_packets
             /\ c.total_fwd_bytes = h.same_src_bytes
             /\ c.total_bwd_packets = h.packets - h.same_src_packets
             /\ c.total_bwd_bytes = h.bytes - h.same_src_bytes

\* a live record created by the higher-ordered endpoint "9" of its key,
\* with its creating packet forward and the reply backward
DirectionByFirstPacketWitness ==
    \E k \in DOMAIN flows :
        /\ flows[k].src_ip = <<9>>
        /\ k[1] = <<1, 0>>
        /\ flows[k].fwd_packets = 1 /\ flows[k].fwd_bytes = 1500
        /\ flows[k].bwd_packets = 1 /\ flows[k].bwd_bytes = 60

\* C7: the N >= 1 packets of one flow followed by an expiry sweep later
\* than flow_timeout after the last one produce exactly one completed
\* record, with total_packets = N = total_fwd_packets + total_bwd_packets
\* and total_bytes the sum of the N packet sizes.
OneRecordWithTotals ==
    /\ \A i, j \in 1..Len(AllCompleted) :
         AllCompleted[i].id = AllCompleted[j].id => i = j
    /\ \A c \in Range(AllCompleted) :
         /\ hist[c.id].packets >= 1
         /\ c.total_packets = hist[c.id].packets
         /\ c.total_packets = c.total_fwd_packets + c.total_bwd_packets
         /\ c.total_bytes = hist[c.id].bytes
    /\ fpc["cleanup"] = "sw_delete" =>
         \A k \in DOMAIN flows :
             floc["cleanup"].current_time - flows[k].last_packet_time > FlowTimeout =>
                 \E c \in Range(completed_flows) : c.id = flows[k].id

\* a sweep has just completed a record of two packets, one each way
OneRecordWithTotalsWitness ==
    /\ fpc["cleanup"] = "sw_delete"
    /\ \E k \in Range(floc["cleanup"].expired_keys) :
         \E c \in Range(completed_flows) :
             /\ c.id = flows[k].id
             /\ c.total_packets = 2
             /\ c.total_fwd_packets = 1
             /\ c.total_bytes = 1560

RECURSIVE SumTotalPackets(_)
SumTotalPackets(q) ==
    IF q = << >> THEN 0 ELSE Head(q).total_packets + SumTotalPackets(Tail(q))

\* the records the holder of the lock is moving: appended to the completed
\* buffer and not yet deleted from the live map (none when the lock is free)
Moving ==
    IF fpc["cleanup"] = "sw_delete"
    THEN {flows[k].id : k \in Range(floc["cleanup"].expired_keys) \cap DOMAIN flows}
    ELSE IF fpc["stop"] = "st_clear" THEN {flows[k].id : k \in DOMAIN flows}
    ELSE {}

Staying == {k \in DOMAIN flows : flows[k].id \notin Moving}

StayingRecords ==
    LET ks == SelectSeq(InOrder(flows), LAMBDA k : k \in Staying)
    IN  [i \in 1..Len(ks) |-> to_dict(flows[ks[i]])]

\* C8: under any interleaving of packet ingestion, expiry sweeps,
\* get_completed_flows and stop no packet is lost or counted twice: the
\* number of accepted packets equals the sum of total_packets over the live
\* records and the completed records (buffered or already returned), and
\* no record is both in the live map and in the completed buffer.  Inside
\* the critical section of a sweep or of stop, which no other operation
\* can observe, the records being moved count once, as completed.
NoPacketLostOrDuplicated ==
    /\ lock = "free" => Moving = {}
    /\ Accepted = SumTotalPackets(StayingRecords) + SumTotalPackets(AllCompleted)
    /\ \A k \in Staying :
         \A c \in Range(AllCompleted) : c.id # flows[k].id

\* two packets were accepted, the first is in a record that was completed
\* and returned, the second in a live record, and a sweep waits for the
\* lock
NoPacketLostOrDuplicatedWitness ==
    /\ lock = "free"
    /\ Accepted = 2
    /\ Len(delivered) = 1
    /\ Cardinality(DOMAIN flows) = 1
    /\ fpc["cleanup"] = "sw_lock"

Count(q, id) == Cardinality({i \in 1..Len(q) : q[i].id = id})

\* C9: under any interleaving of get_completed_flows(clear=True) with
\* sweeps, stop and ingestion each completed record is returned by exactly
\* one such call: no record is returned twice, and every record created is
\* in exactly one place: live, buffered as completed, or returned (a record
\* a sweep or stop is moving inside its critical section counts as
\* buffered), so none falls between the snapshot and the clear of a drain.
DrainExactlyOnce ==
    \A id \in 1..nflows :
        /\ Count(delivered, id) <= 1
        /\ Count(delivered, id) + Count(completed_flows, id)
              + Cardinality({k \in Staying : flows[k].id = id}) = 1

\* one record was returned by a drain, and a sweep, which had read the
\* clock before that drain, has since buffered another
DrainExactlyOnceWitness ==
    /\ lock = "free"
    /\ Len(delivered) = 1
    /\ Len(completed_flows) = 1
    /\ nflows = 2

\* the step of a sweep that deletes the expired keys and leaves the lock
SweepDeleteStep == fpc["cleanup"] = "sw_delete" /\ fpc'["cleanup"] = "idle"

\* C10: an expiry sweep at time now completes a live flow if and only if
\* now - last_packet_time > 120: when the sweep deletes, every flow idle
\* for more than 120 (last packet at 100: at 221) leaves the live map and
\* has its record in the completed buffer, and every other flow (last
\* packet at 100: at 150 and at 220) stays live, unchanged, without record.
SweepStrictlyAfterTimeout ==
    [][SweepDeleteStep =>
        \A k \in DOMAIN flows :
            IF floc["cleanup"].current_time - flows[k].last_packet_time > 120
            THEN /\ k \notin DOMAIN flows'
                 /\ Count(completed_flows', flows[k].id) = 1
            ELSE /\ k \in DOMAIN flows'
                 /\ flows'[k] = flows[k]
                 /\ Count(completed_flows', flows[k].id) = 0]_vars

\* a sweep that read the clock at 221 is about to delete a flow whose last
\* packet came at 100
SweepStrictlyAfterTimeoutWitness ==
    /\ fpc["cleanup"] = "sw_delete"
    /\ floc["cleanup"].current_time = 221
    /\ \E k \in Range(floc["cleanup"].expired_keys) :
         flows[k].last_packet_time = 100

\* the steps of stop inside its lock: the loop that appends, and the clear
StopMoveStep == fpc["stop"] = "st_move" /\ fpc'["stop"] = "st_clear"

StopClearStep == fpc["stop"] = "st_clear" /\ fpc'["stop"] = "idle"

\* C11: stop() force-completes: its loop appends to the completed buffer
\* exactly one record (the flow's to_dict) for every live flow, whatever
\* its idle time, and keeps the records already buffered; it then empties
\* the live map and leaves the buffer as it is, so when stop() returns the
\* live map is empty, and a stop() that finds no live flow adds nothing.
StopForceCompletes ==
    [][/\ StopMoveStep =>
            /\ Len(completed_flows') = Len(completed_flows) + Cardinality(DOMAIN flows)
            /\ SubSeq(completed_flows', 1, Len(completed_flows)) = completed_flows
            /\ \A k \in DOMAIN flows :
                 /\ Count(completed_flows', flows[k].id) = 1
                 /\ to_dict(flows[k]) \in Range(completed_flows')
            /\ flows' = flows
       /\ StopClearStep =>
            /\ flows' = << >>
            /\ completed_flows' = completed_flows
            /\ lock' = "free"]_vars

\* stop is about to clear the live map after moving a flow that had its
\* last packet at this very time, behind a record that a sweep had buffered
StopForceCompletesWitness ==
    /\ fpc["stop"] = "st_clear"
    /\ Len(completed_flows) = 2
    /\ \E k \in DOMAIN flows :
         /\ clock - flows[k].last_packet_time = 0
         /\ completed_flows[2] = to_dict(flows[k])
         /\ completed_flows[1].id # flows[k].id

\* the flow key of a completed record
RecordKey(c) == get_flow_key(c.src_ip, c.dst_ip, c.src_port, c.dst_port, c.protocol)

\* a packet finds no live record for its key and a new one is created
CreateStep(t) ==
    /\ fpc[t] = "pp_create" /\ fpc'[t] = "pp_update"
    /\ floc[t].key \notin DOMAIN flows

\* C12: a completed flow is terminal: a record in the completed buffer (or
\* returned from it) is never modified; a later packet of the same 5-tuple
\* creates a new live record, with counters at zero and the source of that
\* packet as its forward direction, so that the live record counts that
\* packet and the later ones only.
CompletedIsTerminal ==
    /\ [][Range(AllCompleted) \subseteq Range(AllCompleted')]_vars
    /\ [][\A t \in Sniffers : CreateStep(t) =>
            LET p == floc[t].pkt
                f == flows'[floc[t].key]
            IN  /\ \A c \in Range(AllCompleted) : c.id # f.id
                /\ f.src_ip = p.src /\ f.src_port = PacketSport(p)
                /\ total_packets(f) = 0 /\ total_bytes(f) = 0
                /\ f.packet_times = << >>]_vars
    /\ [](\A k \in Staying : \A c \in Range(AllCompleted) :
            RecordKey(c) = k =>
                LET f == flows[k]
                IN  /\ c.id < f.id
                    /\ total_packets(f) = hist[f.id].packets
                    /\ total_bytes(f) = hist[f.id].bytes
                    /\ f.fwd_packets = hist[f.id].same_src_packets
                    /\ c.total_packets = hist[c.id].packets)

\* the reply of a completed flow's packet has created a new live record
\* for the same key: one packet, forward, from the other endpoint
CompletedIsTerminalWitness ==
    \E k \in DOMAIN flows : \E c \in Range(AllCompleted) :
        /\ RecordKey(c) = k
        /\ c.src_ip = <<1, 0>> /\ c.total_fwd_packets = 1 /\ c.total_packets = 1
        /\ flows[k].src_ip = <<9>>
        /\ flows[k].fwd_packets = 1 /\ flows[k].bwd_packets = 0
        /\ flows[k].fwd_bytes = 1500

\* the steps of get_completed_flows: the copy, and the return
DrainCopyStep == fpc["drain"] = "gc_copy" /\ fpc'["drain"] = "gc_clear"

DrainReturnStep == fpc["drain"] = "gc_clear" /\ fpc'["drain"] = "idle"

\* C14: get_completed_flows returns all the records buffered at the call;
\* with clear=True the buffer is empty afterwards (so the next call, with
\* no completion in between, returns the empty list); with clear=False the
\* buffer is unchanged (so the next call returns the same records).
DrainReturnsBuffer ==
    [][/\ DrainCopyStep => floc'["drain"].flows = completed_flows
       /\ DrainReturnStep =>
            /\ floc["drain"].flows = completed_flows
            /\ IF floc["drain"].clear
               THEN completed_flows' = << >>
               ELSE completed_flows' = completed_flows]_vars

\* a call with clear=True is about to return the empty list: the buffer is
\* empty since an earlier call returned its record
DrainReturnsBufferWitness ==
    /\ fpc["drain"] = "gc_clear"
    /\ floc["drain"].clear
    /\ floc["drain"].flows = << >>
    /\ Len(delivered) = 1
    /\ flows = << >>

\* a skipped packet leaves _process_packet
SkipStep(t) == fpc[t] = "pp_skip" /\ fpc'[t] = "idle"

\* C15: a packet without IP layer, or one whose processing raises, is
\* skipped: the live map and the completed buffer are left exactly as they
\* were, the sniffer never holds the lock on that path nor leaves it held,
\* and the sniffer is back where it takes the next packet.
PacketSkipped ==
    /\ [](\A t \in Sniffers : fpc[t] = "pp_skip" => lock # t)
    /\ [][\A t \in Sniffers : SkipStep(t) =>
            /\ flows' = flows
            /\ completed_flows' = completed_flows
            /\ hist' = hist
            /\ lock' = lock /\ lock' # t]_vars

\* a packet is being skipped while one flow is live, one record buffered,
\* and a sweep holds the lock
PacketSkippedWitness ==
    /\ \E t \in Sniffers : fpc[t] = "pp_skip"
    /\ Cardinality(DOMAIN flows) = 1
    /\ Len(completed_flows) = 1
    /\ lock = "cleanup"

(***************************************************************************)
(* Claims about the construction of the TrustScoreManager                  *)
(***************************************************************************)
\* the configuration the specification calls valid
ValidConfig(a) ==
    /\ a.behavioral_weight + a.vulnerability_weight + a.reputation_weight # 0
    /\ a.decay_rate >= 0

\* C16: constructing a TrustScoreManager with weights that sum to zero or
\* with a negative decay_rate fails: an instance exists only for a valid
\* configuration.
InvalidConfigRefused == built = "yes" => ValidConfig(args)

(***************************************************************************)
(* Claims about the capture run by its threads                             *)
(***************************************************************************)
IsLive(id) == \E k \in DOMAIN flows : flows[k].id = id

\* C13: every flow record that is created is eventually completed: no
\* record stays in the live map forever once its packets have stopped,
\* whenever they were processed relative to stop(); a sweep of the cleanup
\* thread or stop() moves it to the completed buffer.
EventuallyCompleted == \A id \in 1..MaxPackets : IsLive(id) ~> ~IsLive(id)

(***************************************************************************)
(* Claims about apply_score_decay and the queries                          *)
(***************************************************************************)
\* C21: apply_score_decay(h), with f = decay_rate ** h, moves
\* behavioral_score and reputation_score of every device toward 100 by
\* (100 - component) * (1 - f): for 0 <= decay_rate < 1 and h > 0 each of
\* the two never decreases, never exceeds 100 and strictly increases when it
\* was below 100, so that the trust_score of such a device strictly
\* increases; with decay_rate 0.95 and h = 1 a behavioral_score of 0
\* becomes 5.
DecayRecovers ==
    [][CallStep("apply_score_decay") =>
        \A ip \in DOMAIN devices :
            LET old == devices[ip]
                new == devices'[ip]
                h == last_call'.arg
            IN  /\ new.behavioral_score >= old.behavioral_score
                /\ new.reputation_score >= old.reputation_score
                /\ new.behavioral_score <= Full
                /\ new.reputation_score <= Full
                /\ old.behavioral_score < Full =>
                       new.behavioral_score > old.behavioral_score
                /\ old.reputation_score < Full =>
                       new.reputation_score > old.reputation_score
                /\ old.behavioral_score < Full \/ old.reputation_score < Full =>
                       RatLess(old.trust_score, new.trust_score)
                /\ decay_rate = 95 /\ h = 1 /\ old.behavioral_score = 0 =>
                       new.behavioral_score = 5 * Scale]_vars

\* C22: apply_score_decay never changes vulnerability_score,
\* vulnerable_ports, anomaly_count, is_whitelisted or is_blacklisted of any
\* device and never creates or removes a device; the vulnerability_score of
\* a device changes only through update_vulnerability_score,
\* whitelist_device or blacklist_device for that device.
DecayFrame ==
    [][nops' = nops + 1 =>
        /\ CallStep("apply_score_decay") =>
              /\ DOMAIN devices' = DOMAIN devices
              /\ \A ip \in DOMAIN devices :
                    /\ devices'[ip].vulnerability_score = devices[ip].vulnerability_score
                    /\ devices'[ip].vulnerable_ports = devices[ip].vulnerable_ports
                    /\ devices'[ip].anomaly_count = devices[ip].anomaly_count
                    /\ devices'[ip].is_whitelisted = devices[ip].is_whitelisted
                    /\ devices'[ip].is_blacklisted = devices[ip].is_blacklisted
        /\ \A ip \in DOMAIN devices :
              devices'[ip].vulnerability_score # devices[ip].vulnerability_score =>
                  /\ last_call'.op \in {"update_vulnerability_score", "whitelist_device",
                                        "blacklist_device"}
                  /\ last_call'.ip = ip]_vars

\* a decay has just run over a device with open vulnerable ports, a lowered
\* vulnerability_score, a counted anomaly and a behavioral_score it raised
\* but not to 100
DecayFrameWitness ==
    /\ last_call.op = "apply_score_decay"
    /\ \E ip \in DOMAIN devices :
          /\ devices[ip].vulnerability_score < Full
          /\ devices[ip].vulnerable_ports # << >>
          /\ devices[ip].anomaly_count = 1
          /\ devices[ip].behavioral_score > 50 * Scale
          /\ devices[ip].behavioral_score < Full

\* the operations that only read
Queries == {"get_device_score", "get_all_devices", "get_low_trust_devices", "to_dict"}

\* C23: the read-only queries never create or alter state:
\* get_device_score(ip) for an address never referenced returns None and
\* leaves the device map unchanged, and get_all_devices,
\* get_low_trust_devices and to_dict change no record; every mutating
\* operation on an unknown address first creates its record with all scores
\* 100, both flags false and anomaly_count 0, so that what the operation
\* does not assign has these values afterwards.
QueriesReadOnly ==
    [][nops' = nops + 1 =>
        LET op == last_call'.op
            ip == last_call'.ip
        IN  /\ op \in Queries => devices' = devices
            /\ op = "get_device_score" /\ ip \notin DOMAIN devices => result' = "None"
            /\ op = "get_device_score" /\ ip \in DOMAIN devices => result' = devices[ip]
            /\ op \notin Queries /\ ip \in DeviceIPs /\ ip \notin DOMAIN devices =>
                  LET new == devices'[ip] IN
                  /\ DOMAIN devices' = DOMAIN devices \cup {ip}
                  /\ \A other \in DOMAIN devices : devices'[other] = devices[other]
                  /\ op = "get_or_create_device" =>
                        /\ new.behavioral_score = Full /\ new.vulnerability_score = Full
                        /\ new.reputation_score = Full
                        /\ RatEq(new.trust_score, RatOf(Full))
                        /\ ~new.is_whitelisted /\ ~new.is_blacklisted
                        /\ new.anomaly_count = 0
                  /\ op = "update_behavioral_score" =>
                        /\ new.vulnerability_score = Full /\ new.reputation_score = Full
                        /\ ~new.is_whitelisted /\ ~new.is_blacklisted
                        /\ new.anomaly_count = 1
                  /\ op = "update_vulnerability_score" =>
                        /\ new.behavioral_score = Full /\ new.reputation_score = Full
                        /\ ~new.is_whitelisted /\ ~new.is_blacklisted
                        /\ new.anomaly_count = 0
                  /\ op = "update_reputation_score" =>
                        /\ new.behavioral_score = Full /\ new.vulnerability_score = Full
                        /\ ~new.is_whitelisted /\ ~new.is_blacklisted
                        /\ new.anomaly_count = 0
                  /\ op = "whitelist_device" => ~new.is_blacklisted /\ new.anomaly_count = 0
                  /\ op = "blacklist_device" => ~new.is_whitelisted /\ new.anomaly_count = 0]_vars

\* get_device_score has returned None for an address not in the map, which
\* holds another device and still does not hold that address
QueriesReadOnlyWitness ==
    /\ last_call.op = "get_device_score"
    /\ last_call.ip \notin DOMAIN devices
    /\ result = "None"
    /\ DOMAIN devices # {}

OverridesSetAllScores ==
    [][nops' = nops + 1 =>
        LET ip == last_call'.ip IN
        /\ last_call'.op = "whitelist_device" =>
              /\ devices'[ip].behavioral_score = Full
              /\ devices'[ip].vulnerability_score = Full
              /\ devices'[ip].reputation_score = Full
              /\ RatEq(devices'[ip].trust_score, RatOf(Full))
        /\ last_call'.op = "blacklist_device" =>
              /\ devices'[ip].behavioral_score = 0
              /\ devices'[ip].vulnerability_score = 0
              /\ devices'[ip].reputation_score = 0
              /\ RatEq(devices'[ip].trust_score, RatOf(0))]_vars

\* blacklist_device has just created a device and left it at 0, and the
\* other device, which had an anomaly counted before it was whitelisted, is
\* at 100
OverridesSetAllScoresWitness ==
    /\ last_call.op = "blacklist_device"
    /\ devices[last_call.ip].anomaly_count = 0
    /\ devices[last_call.ip].reputation_score = 0
    /\ RatEq(devices[last_call.ip].trust_score, RatOf(0))
    /\ \E ip \in DOMAIN devices :
          /\ devices[ip].is_whitelisted
          /\ devices[ip].anomaly_count = 1
          /\ devices[ip].behavioral_score = Full
          /\ RatEq(devices[ip].trust_score, RatOf(Full))

(***************************************************************************)
(* Claims about scans of the device map while other threads use it         *)
(***************************************************************************)
\* C26: the scans of the whole device map (apply_score_decay,
\* get_all_devices, get_low_trust_devices, to_dict) are structurally
\* protected against a first reference to a new device made concurrently by
\* another thread: the scan never fails with a runtime error, and so goes
\* on to process every device present when it began exactly once.
ScanNeverFails == \A t \in Threads : ~traised[t]

(***************************************************************************)
(* Claims about the times a flow record keeps                              *)
(***************************************************************************)
\* the live records that have been given a packet
LiveWithPackets == {flows[k] : k \in {j \in DOMAIN flows : total_packets(flows[j]) > 0}}

\* the dicts of the records that have been given a packet: live, buffered
\* as completed, or returned
DictsWithPackets ==
    {to_dict(f) : f \in LiveWithPackets} \cup Range(completed_flows) \cup Range(delivered)

\* C27: flow_duration is the timestamp of the record's last packet minus the
\* timestamp of its first packet; it is never negative and it is 0 for a
\* flow of a single packet, the timestamp read in _process_packet and the
\* start_time read in NetworkFlow.__init__ being two separate reads of a
\* clock that does not go back.
DurationFromPackets ==
    /\ \A f \in LiveWithPackets :
          duration(f) = f.packet_times[Len(f.packet_times)] - f.packet_times[1]
    /\ \A r \in DictsWithPackets :
          /\ r.flow_duration >= 0
          /\ r.total_packets = 1 => r.flow_duration = 0

\* q is in non-decreasing order
NonDecreasing(q) == \A i \in 1..(Len(q) - 1) : q[i] <= q[i + 1]

\* C28: within one flow record the packet timestamps are appended in
\* non-decreasing order and last_packet_time never moves backwards, also
\* when several _process_packet calls for the same key interleave (each
\* reads its timestamp before it acquires the lock); hence the mean
\* inter-arrival time of a record is never negative.
TimesNeverGoBack ==
    /\ [](\A k \in DOMAIN flows :
             /\ NonDecreasing(flows[k].packet_times)
             /\ avg_inter_arrival_time(flows[k]).num >= 0)
    /\ [][\A k \in DOMAIN flows \cap DOMAIN flows' :
             flows'[k].id = flows[k].id =>
                 flows'[k].last_packet_time >= flows[k].last_packet_time]_vars

\* the times of the packets of every record are in order (without
\* last_packet_time)
PacketTimesInOrder == \A k \in DOMAIN flows : NonDecreasing(flows[k].packet_times)

(***************************************************************************)
(* Claims about IPTablesManager                                            *)
(***************************************************************************)
\* C29: an address blocked permanently (block_ip(ip, permanent=True), as
\* issued when a device is blacklisted) stays in blocked_ips until
\* unblock_ip(ip) or flush_rules is called: a later quarantine_ip(ip)
\* followed by check_quarantine_expiry after the quarantine duration does
\* not remove the block.
PermanentBlockStays == permanent \subseteq blocked_ips

(***************************************************************************)
(* Claims about ProjectArgus and the capture it runs                       *)
(***************************************************************************)
\* record id is in the completed buffer / has been returned to
\* _process_flows
IsBuffered(id) == Count(completed_flows, id) > 0

IsRetrieved(id) == Count(delivered, id) > 0

\* C30: in ProjectArgus every completed flow record the capture produces is
\* eventually retrieved by _process_flows (get_completed_flows(clear=True))
\* and handed to storage and analysis exactly once, the records that
\* packet_capture.stop() force-completes during ProjectArgus.stop()
\* included.
EveryRecordRetrieved ==
    /\ \A id \in 1..MaxPackets : IsBuffered(id) ~> IsRetrieved(id)
    /\ [](\A id \in 1..MaxPackets : Count(delivered, id) <= 1)

====
